---- MODULE Spec2Model ----
(***************************************************************************)
(* GameOverlay: GPU resource and frame lifecycle management.               *)
(*                                                                         *)
(* The module models the parts of the program, each with its own           *)
(* specification over a shared set of variables:                           *)
(*   SpecAllocatorPool  CommandAllocatorPool (CommandAllocatorPool.cpp)    *)
(*   SpecDescriptors    the descriptor pools of ResourceManager            *)
(*   SpecStates         the resource state tracker of ResourceManager      *)
(*   SpecUsage          the usage table, pinning and eviction              *)
(*   SpecFrameLoop      WinMain's loop, RenderSystem's frames, the GPU     *)
(*   SpecFrame          SpecFrameLoop with WaitForGpu and Resize           *)
(*   SpecFrameLive      SpecFrame with a GPU that keeps executing          *)
(*   SpecBridge         the pending-update record and m_bufferMutex        *)
(*   SpecCopy           the row-by-row copy into the upload buffer         *)
(*   SpecEviction       the loop with ReleaseUnusedResources between       *)
(*                      iterations                                         *)
(*   SpecDelivery       paint deliveries against the loop's copies         *)
(*   SpecCreate         the Create* operations of ResourceManager          *)
(*   SpecAlign          the width CreateConstantBuffer computes            *)
(*   SpecRender         the loop's commands on the browser texture         *)
(*   SpecBatch          one batched TransitionResources call               *)
(*   SpecViews          CreateShaderResourceView over the descriptor pools *)
(*   SpecClear          ClearCache against descriptors callers still hold  *)
(*   SpecSizes          the view's sizes under Resize, quality and paints  *)
(***************************************************************************)
EXTENDS Integers, Sequences, FiniteSets, TLC

(***************************************************************************)
(* Bounds of the model.                                                    *)
(***************************************************************************)
MaxFence == 1
MaxPool == 4
MaxQueue == 3
MaxAllocators == 4
DescriptorCapacity == 3
UintBits == 10
MaxResources == 2
MaxBarriers == 3
MaxMemory == 320
MaxTime == 2
MaxAge == 1
MaxSignal == 4
MaxDeliveries == 2
MaxGpuQueue == 6
MaxCopyWidth == 65
MaxCopyHeight == 2
MaxPattern == 1
MaxCopies == 2
MaxBatch == 2
MaxHolders == 2

(***************************************************************************)
(* Program constants.                                                      *)
(***************************************************************************)
PreAllocated == 3
\* m_maxCacheSize at construction, in MiB (the model's unit of memory)
DefaultCacheLimit == 256
\* swap chain buffers, command allocators and per-slot fence values
FrameCount == 3
\* D3D12_TEXTURE_DATA_PITCH_ALIGNMENT, in bytes
PitchAlignment == 256
\* bytes per BGRA pixel
BytesPerPixel == 4
\* cbvSrvUavDescriptorSize, as the device reports it
DescriptorIncrement == 32

\* UINT_MAX, the invalid-index marker, at the modelled width of UINT.
UINT_MAX == (2 ^ UintBits) - 1

VARIABLES
    \* ---- CommandAllocatorPool ----
    m_allocatorPool,        \* vector<CommandAllocatorEntry>
    m_availableAllocators,  \* queue<size_t>; positions are 1-based here
    nextAllocator,          \* the next allocator object the device creates
    poolRet,                \* outcome of the last pool call
    heldAllocators,         \* per allocator, the acquirers that hold it (at most 2 counted)
    \* ---- ResourceManager: descriptor pools ----
    m_descriptorPools,      \* map<heap type, DescriptorPool>
    liveDescriptors,        \* per pool and index: allocations not yet freed
    descRet,                \* outcome of the last descriptor call
    \* ---- ResourceManager: resource state tracker ----
    m_resourceStates,       \* unordered_map<ID3D12Resource*, ResourceState>
    recordedBarriers,       \* number of barriers recorded on the command list
    lastCall,               \* the last call on the tracker and what it recorded
    prevCall,               \* the call before it
    batchRet,               \* the last TransitionResources call and what it issued
    \* ---- ResourceManager: usage table and eviction ----
    m_resourceUsage,        \* unordered_map<string, ResourceUsage>
    m_memoryUsageByType,    \* map<ResourceType, size_t>
    m_maxCacheSize,         \* soft ceiling on tracked memory
    now,                    \* steady_clock, in seconds
    relock,                 \* what locking m_mutex twice on one thread does
    rmHung,                 \* a thread is blocked for ever inside the manager
    usageRet,               \* outcome of the last call on the usage table
    \* ---- RenderSystem, the GPU and WinMain's loop ----
    pc,                     \* where the main thread is
    m_frameIndex,           \* RenderSystem::m_frameIndex
    m_fenceValues,          \* RenderSystem::m_fenceValues[3]
    backBufferIndex,        \* the swap chain's current back buffer
    m_fence,             \* the value of m_fence, as the GPU has set it
    gpuQueue,               \* m_commandQueue: what the GPU has yet to execute
    fenceEvent,             \* m_fenceEvent is set
    waitTarget,             \* the value SetEventOnCompletion was called with
    movedFrom,              \* currentFenceValue of a blocked MoveToNextFrame
    listReadsUpload,        \* the open command list holds the staging copy
    m_cpuBufferData,        \* BrowserView: the borrowed pixel buffer (0: null)
    m_textureNeedsGPUCopy,  \* BrowserView: the needs-copy flag
    paintBuffer,            \* the buffer of the OnPaint call in progress (0: none)
    nextBuffer,             \* the next buffer the browser paints into
    resetPending,           \* last BeginFrame: a list of that slot was not done
    lastCopy,               \* what the last copy block of the loop did
    sigLast,                \* the last fence Signal: who issued it, its value
    sigPrev,                \* the Signal before it
    sigMax,                 \* the highest value passed to Signal so far
    \* ---- BrowserView: the pending-update record, field by field ----
    m_cpuBufferWidth,       \* the delivery whose width is stored (0: reset)
    m_cpuBufferHeight,      \* the delivery whose height is stored (0: reset)
    m_bufferMutex,          \* the thread that holds m_bufferMutex
    m_processingIsSuspended,
    producerPc,             \* where the painting thread is in its callback
    mainPc,                 \* where the main thread is in a bridge operation
    raiseAfter,             \* the release in progress is part of Resize
    snapshot,               \* what the consumer has read from the record
    lastAccess,             \* the last access to a field of the record
    \* ---- WinMain: the staged row-by-row copy ----
    cpuBuffer,              \* the bytes of the painted buffer
    cpuBufferWidth,         \* its width in pixels
    cpuBufferHeight,        \* its height in pixels
    uploadWidth,            \* uploadDesc.Width: size of the upload buffer
    mappedData,             \* the bytes of the mapped upload buffer
    yRow,                   \* y of the copy loop
    copyPc,                 \* where the copy is
    \* ---- WinMain's loop: what became of the deliveries ----
    copyCount,              \* per delivered buffer: the copies made of it
    overwritten,            \* a delivery was replaced before it was copied
    recorded,               \* the open command list: texture and UI commands
    uiStartState,           \* the texture's tracked state when UI rendering began
    \* ---- ResourceManager: the Create operations ----
    createRet,              \* the last Create call: its inputs and its handle
    alignedSize,            \* CreateConstantBuffer: the size and the width made of it
    srvRet,                 \* the last CreateShaderResourceView call and what it did
    view                    \* BrowserView's sizes, its texture resources and the pending paint

poolVars == <<m_allocatorPool, m_availableAllocators, nextAllocator, poolRet,
              heldAllocators>>
descVars == <<m_descriptorPools, liveDescriptors, descRet>>
stateVars == <<m_resourceStates, recordedBarriers, lastCall, prevCall, batchRet>>
usageVars == <<m_resourceUsage, m_memoryUsageByType, m_maxCacheSize, now, relock,
               rmHung, usageRet>>
frameVars == <<pc, m_frameIndex, m_fenceValues, backBufferIndex, m_fence, gpuQueue,
               fenceEvent, waitTarget, movedFrom, listReadsUpload, m_cpuBufferData,
               m_textureNeedsGPUCopy, paintBuffer, nextBuffer, resetPending, lastCopy,
               sigLast, sigPrev, sigMax>>
bridgeVars == <<m_cpuBufferWidth, m_cpuBufferHeight, m_bufferMutex, m_processingIsSuspended,
                producerPc, mainPc, raiseAfter, snapshot, lastAccess>>
copyVars == <<cpuBuffer, cpuBufferWidth, cpuBufferHeight, uploadWidth, mappedData, yRow,
              copyPc>>
loopVars == <<copyCount, overwritten, recorded, uiStartState>>
createVars == <<createRet, alignedSize, srvRet, view>>
extVars == <<bridgeVars, copyVars, loopVars, createVars>>
frameVarsButPc == <<m_frameIndex, m_fenceValues, backBufferIndex, m_fence, gpuQueue,
                    fenceEvent, waitTarget, movedFrom, listReadsUpload, m_cpuBufferData,
                    m_textureNeedsGPUCopy, paintBuffer, nextBuffer, resetPending, lastCopy,
                    sigLast, sigPrev, sigMax>>
vars == <<poolVars, descVars, stateVars, usageVars, frameVars, extVars>>

(***************************************************************************)
(* CommandAllocatorPool                                                    *)
(***************************************************************************)
\* Allocator objects are named by numbers; 0 is an allocator that was
\* created outside the pool ("ad hoc"), the pool's own start at 1.
AdHocAllocator == 0

FenceValues == 0..MaxFence

NoRet == [kind |-> "none", allocator |-> 0, fenceValue |-> 0, completed |-> 0]

MinOf(S) == CHOOSE x \in S : \A y \in S : x <= y

\* the test `entry.fenceValue <= completedFenceValue`, mutated off by one
FenceReached_OffByOne(entry, completedFenceValue) ==
    entry.fenceValue <= completedFenceValue + 1

\* the test `entry.fenceValue <= completedFenceValue`
FenceReached(entry, completedFenceValue) ==
    entry.fenceValue <= completedFenceValue

PoolInit ==
    /\ m_allocatorPool = [i \in 1..PreAllocated |-> [allocator |-> i, fenceValue |-> 0]]
    /\ m_availableAllocators = [i \in 1..PreAllocated |-> i]
    /\ nextAllocator = PreAllocated + 1
    /\ poolRet = NoRet
    /\ heldAllocators = [a \in 0..MaxAllocators |-> 0]

\* CreateCommandAllocator: the new entry is pushed to the pool and not to
\* the queue; a failing device call throws before the pool is touched.
CreateCommandAllocator(completedFenceValue, deviceOk) ==
    IF deviceOk
    THEN /\ nextAllocator <= MaxAllocators
         /\ m_allocatorPool' = Append(m_allocatorPool,
                                   [allocator |-> nextAllocator, fenceValue |-> 0])
         /\ nextAllocator' = nextAllocator + 1
         /\ poolRet' = [kind |-> "returned", allocator |-> nextAllocator,
                        fenceValue |-> 0, completed |-> completedFenceValue]
    ELSE /\ UNCHANGED <<m_allocatorPool, nextAllocator>>
         /\ poolRet' = [kind |-> "threw", allocator |-> 0,
                        fenceValue |-> 0, completed |-> completedFenceValue]

GetCommandAllocator(completedFenceValue, deviceOk) ==
    LET hasFront == m_availableAllocators # <<>>
        front == Head(m_availableAllocators)
        frontSafe == hasFront /\ FenceReached(m_allocatorPool[front], completedFenceValue)
        safe == {i \in 1..Len(m_allocatorPool) :
                     FenceReached(m_allocatorPool[i], completedFenceValue)}
    IN  /\ m_availableAllocators' =
              IF hasFront THEN Tail(m_availableAllocators) ELSE m_availableAllocators
        /\ IF frontSafe
           THEN /\ poolRet' = [kind |-> "returned",
                               allocator |-> m_allocatorPool[front].allocator,
                               fenceValue |-> m_allocatorPool[front].fenceValue,
                               completed |-> completedFenceValue]
                /\ UNCHANGED <<m_allocatorPool, nextAllocator>>
           ELSE IF safe # {}
           THEN /\ poolRet' = [kind |-> "returned",
                               allocator |-> m_allocatorPool[MinOf(safe)].allocator,
                               fenceValue |-> m_allocatorPool[MinOf(safe)].fenceValue,
                               completed |-> completedFenceValue]
                /\ UNCHANGED <<m_allocatorPool, nextAllocator>>
           ELSE /\ Len(m_allocatorPool) < MaxPool
                /\ CreateCommandAllocator(completedFenceValue, deviceOk)
        /\ heldAllocators' =
              IF poolRet'.kind = "returned"
              THEN [heldAllocators EXCEPT ![poolRet'.allocator] = IF @ < 2 THEN @ + 1 ELSE @]
              ELSE heldAllocators
        /\ UNCHANGED <<descVars, stateVars, usageVars, frameVars, extVars>>

\* ReleaseCommandAllocator without the search of the pool
ReleaseCommandAllocator_AlwaysAdopt(fenceValue, allocator) ==
    /\ Len(m_availableAllocators) < MaxQueue
    /\ Len(m_allocatorPool) < MaxPool
    /\ m_allocatorPool' = Append(m_allocatorPool,
                              [allocator |-> allocator, fenceValue |-> fenceValue])
    /\ m_availableAllocators' = Append(m_availableAllocators, Len(m_allocatorPool) + 1)
    /\ poolRet' = [kind |-> "released", allocator |-> allocator,
                   fenceValue |-> fenceValue, completed |-> 0]
    /\ heldAllocators' = [heldAllocators EXCEPT ![allocator] = IF @ > 0 THEN @ - 1 ELSE @]
    /\ UNCHANGED <<nextAllocator, descVars, stateVars, usageVars, frameVars, extVars>>

ReleaseCommandAllocator(fenceValue, allocator) ==
    LET found == {i \in 1..Len(m_allocatorPool) : m_allocatorPool[i].allocator = allocator}
    IN  /\ Len(m_availableAllocators) < MaxQueue
        /\ IF found # {}
           THEN /\ m_allocatorPool' =
                      [m_allocatorPool EXCEPT ![MinOf(found)].fenceValue = fenceValue]
                /\ m_availableAllocators' = Append(m_availableAllocators, MinOf(found))
           ELSE /\ Len(m_allocatorPool) < MaxPool
                /\ m_allocatorPool' = Append(m_allocatorPool,
                                          [allocator |-> allocator, fenceValue |-> fenceValue])
                /\ m_availableAllocators' =
                      Append(m_availableAllocators, Len(m_allocatorPool) + 1)
        /\ poolRet' = [kind |-> "released", allocator |-> allocator,
                       fenceValue |-> fenceValue, completed |-> 0]
        /\ heldAllocators' = [heldAllocators EXCEPT ![allocator] = IF @ > 0 THEN @ - 1 ELSE @]
        /\ UNCHANGED <<nextAllocator, descVars, stateVars, usageVars, frameVars, extVars>>

Clear ==
    /\ m_allocatorPool' = <<>>
    /\ m_availableAllocators' = <<>>
    /\ poolRet' = [NoRet EXCEPT !.kind = "cleared"]
    /\ heldAllocators' = [a \in 0..MaxAllocators |-> 0]
    /\ UNCHANGED <<nextAllocator, descVars, stateVars, usageVars, frameVars, extVars>>

DoGetCommandAllocator ==
    \E c \in FenceValues, deviceOk \in BOOLEAN : GetCommandAllocator(c, deviceOk)

\* the allocators a caller can pass: the ones the pool holds a reference to
\* (Clear destroys the others) and one created elsewhere
Releasable ==
    {m_allocatorPool[i].allocator : i \in 1..Len(m_allocatorPool)} \cup {AdHocAllocator}

DoReleaseCommandAllocator ==
    \E f \in FenceValues, a \in Releasable : ReleaseCommandAllocator(f, a)

PoolNext ==
    \/ DoGetCommandAllocator
    \/ DoReleaseCommandAllocator
    \/ Clear

(***************************************************************************)
(* ResourceManager: descriptor pools                                       *)
(***************************************************************************)
HeapTypes == {"RTV", "CBV_SRV_UAV"}
Slots == 0..(DescriptorCapacity - 1)
\* what a caller may pass as an index: every slot, the first index past the
\* pool, and the invalid-index marker
IndexArgs == Slots \cup {DescriptorCapacity, UINT_MAX}

NoDescRet == [op |-> "none", type |-> "RTV", index |-> 0, wasFull |-> FALSE]

DescInit ==
    /\ m_descriptorPools = [t \in HeapTypes |->
                               [allocated |-> [i \in Slots |-> FALSE], size |-> 0]]
    /\ liveDescriptors = [t \in HeapTypes |-> [i \in Slots |-> 0]]
    /\ descRet = NoDescRet

FreeSlots(pool) == {i \in Slots : ~pool.allocated[i]}

\* `pool.allocated[i] = true; pool.size++`, with the bitmap write left out
TakeSlot_NoMark(pool, i) ==
    [pool EXCEPT !.size = @ + 1]

\* `pool.allocated[i] = true; pool.size++`
TakeSlot(pool, i) ==
    [pool EXCEPT !.allocated[i] = TRUE, !.size = @ + 1]

\* what AllocateDescriptor returns when no slot is free, wrapping around to
\* a low index instead
ExhaustedIndex_Wrap(pool) == pool.size % DescriptorCapacity

\* what AllocateDescriptor returns when no slot is free
ExhaustedIndex(pool) == UINT_MAX

AllocateDescriptor(type) ==
    LET pool == m_descriptorPools[type]
        free == FreeSlots(pool)
    IN  /\ IF free # {}
           THEN /\ m_descriptorPools' =
                      [m_descriptorPools EXCEPT ![type] = TakeSlot(pool, MinOf(free))]
                /\ liveDescriptors' =
                      [liveDescriptors EXCEPT ![type][MinOf(free)] = @ + 1]
                /\ descRet' = [op |-> "allocate", type |-> type,
                               index |-> MinOf(free), wasFull |-> FALSE]
           ELSE /\ UNCHANGED <<m_descriptorPools, liveDescriptors>>
                /\ descRet' = [op |-> "allocate", type |-> type,
                               index |-> ExhaustedIndex(pool), wasFull |-> TRUE]
        /\ UNCHANGED <<poolVars, stateVars, usageVars, frameVars, extVars>>

\* FreeDescriptor without the test of pool.allocated[index]
FreeDescriptor_NoCheck(type, index) ==
    /\ IF index < DescriptorCapacity
       THEN m_descriptorPools' =
                [m_descriptorPools EXCEPT ![type].allocated[index] = FALSE,
                                          ![type].size = @ - 1]
       ELSE UNCHANGED m_descriptorPools
    /\ liveDescriptors' =
          IF index \in Slots /\ liveDescriptors[type][index] > 0
          THEN [liveDescriptors EXCEPT ![type][index] = @ - 1]
          ELSE liveDescriptors
    /\ descRet' = [op |-> "free", type |-> type, index |-> index, wasFull |-> FALSE]
    /\ UNCHANGED <<poolVars, stateVars, usageVars, frameVars, extVars>>

FreeDescriptor(type, index) ==
    LET pool == m_descriptorPools[type]
    IN  /\ IF index < DescriptorCapacity /\ pool.allocated[index]
           THEN m_descriptorPools' =
                    [m_descriptorPools EXCEPT ![type].allocated[index] = FALSE,
                                              ![type].size = @ - 1]
           ELSE UNCHANGED m_descriptorPools
        /\ liveDescriptors' =
              IF index \in Slots /\ liveDescriptors[type][index] > 0
              THEN [liveDescriptors EXCEPT ![type][index] = @ - 1]
              ELSE liveDescriptors
        /\ descRet' = [op |-> "free", type |-> type, index |-> index, wasFull |-> FALSE]
        /\ UNCHANGED <<poolVars, stateVars, usageVars, frameVars, extVars>>

DoAllocateDescriptor == \E t \in HeapTypes : AllocateDescriptor(t)

DoFreeDescriptor == \E t \in HeapTypes, i \in IndexArgs : FreeDescriptor(t, i)

DescNext ==
    \/ DoAllocateDescriptor
    \/ DoFreeDescriptor

(***************************************************************************)
(* ResourceManager: resource state tracker                                 *)
(***************************************************************************)
\* Resources are named by numbers; 0 is the null pointer.
NullResource == 0
Resources == 1..MaxResources

\* the D3D12_RESOURCE_STATES values the program uses on tracked resources
ResourceStates == {"COMMON", "COPY_DEST", "PIXEL_SHADER_RESOURCE"}

\* m_resourceStates.find(resource) == m_resourceStates.end()
NoEntry == "no entry"

NoCall == [op |-> "none", cmd |-> FALSE, resource |-> NullResource,
           state |-> "COMMON", before |-> "COMMON", appended |-> <<>>]

NoBatchRet == [cmd |-> FALSE, transitions |-> <<>>,
               before |-> [r \in Resources |-> NoEntry], calls |-> 0, issued |-> <<>>]

StateInit ==
    /\ m_resourceStates = [r \in Resources |-> NoEntry]
    /\ recordedBarriers = 0
    /\ lastCall = NoCall
    /\ prevCall = NoCall
    /\ batchRet = NoBatchRet

\* GetResourceState: the tracked state, COMMON for a resource with no entry
GetResourceState(resource) ==
    IF resource \in Resources /\ m_resourceStates[resource] # NoEntry
    THEN m_resourceStates[resource]
    ELSE "COMMON"

\* SetResourceState with the store left out
StoreState_Dropped(states, resource, state) == states

\* SetResourceState: overwrite the entry or insert one
StoreState(states, resource, state) ==
    [states EXCEPT ![resource] = state]

\* the barrier with StateBefore and StateAfter exchanged
TransitionBarrier_Swapped(resource, stateBefore, stateAfter) ==
    [resource |-> resource, before |-> stateAfter, after |-> stateBefore]

\* D3D12_RESOURCE_BARRIER of type TRANSITION on all subresources
TransitionBarrier(resource, stateBefore, stateAfter) ==
    [resource |-> resource, before |-> stateBefore, after |-> stateAfter]

SetResourceState(resource, state) ==
    /\ m_resourceStates' = StoreState(m_resourceStates, resource, state)
    /\ prevCall' = lastCall
    /\ lastCall' = [op |-> "set", cmd |-> FALSE, resource |-> resource, state |-> state,
                    before |-> GetResourceState(resource), appended |-> <<>>]
    /\ UNCHANGED <<recordedBarriers, batchRet, poolVars, descVars, usageVars, frameVars,
                   extVars>>

\* TransitionResource(commandList, resource, newState); hasCommandList is
\* FALSE for a null command list
TransitionResource(hasCommandList, resource, newState) ==
    LET currentState == GetResourceState(resource)
        skip == ~hasCommandList \/ resource = NullResource \/ currentState = newState
        barrier == TransitionBarrier(resource, currentState, newState)
    IN  /\ IF skip
           THEN UNCHANGED <<m_resourceStates, recordedBarriers>>
           ELSE /\ recordedBarriers < MaxBarriers
                /\ recordedBarriers' = recordedBarriers + 1
                /\ m_resourceStates' = StoreState(m_resourceStates, resource, newState)
        /\ prevCall' = lastCall
        /\ lastCall' = [op |-> "transition", cmd |-> hasCommandList, resource |-> resource,
                        state |-> newState, before |-> currentState,
                        appended |-> IF skip THEN <<>> ELSE <<barrier>>]
        /\ UNCHANGED <<batchRet, poolVars, descVars, usageVars, frameVars, extVars>>

\* the body of TransitionResources' loop for one (resource, newState) pair,
\* without the skip of a pair that is already correct
BatchStep_NoSkip(states, pair) ==
    LET currentState == IF states[pair.resource] # NoEntry
                        THEN states[pair.resource] ELSE "COMMON"
    IN  [states |-> StoreState(states, pair.resource, pair.state),
         barriers |-> <<TransitionBarrier(pair.resource, currentState, pair.state)>>]

\* the body of TransitionResources' loop for one (resource, newState) pair:
\* GetResourceState, continue when equal, else push_back and SetResourceState
BatchStep(states, pair) ==
    LET currentState == IF states[pair.resource] # NoEntry
                        THEN states[pair.resource] ELSE "COMMON"
    IN  IF currentState = pair.state
        THEN [states |-> states, barriers |-> <<>>]
        ELSE [states |-> StoreState(states, pair.resource, pair.state),
              barriers |-> <<TransitionBarrier(pair.resource, currentState, pair.state)>>]

\* for (const auto& [resource, newState] : transitions), from the front
RECURSIVE BatchLoop(_, _)
BatchLoop(states, transitions) ==
    IF transitions = <<>>
    THEN [states |-> states, barriers |-> <<>>]
    ELSE LET first == BatchStep(states, Head(transitions))
             rest == BatchLoop(first.states, Tail(transitions))
         IN  [states |-> rest.states, barriers |-> first.barriers \o rest.barriers]

\* TransitionResources(commandList, transitions): calls counts the
\* ResourceBarrier calls made, issued is the array passed to it
TransitionResources(hasCommandList, transitions) ==
    LET loop == BatchLoop(m_resourceStates, transitions)
    IN  /\ IF ~hasCommandList \/ transitions = <<>>
           THEN /\ batchRet' = [cmd |-> hasCommandList, transitions |-> transitions,
                                before |-> m_resourceStates, calls |-> 0, issued |-> <<>>]
                /\ UNCHANGED <<m_resourceStates, recordedBarriers>>
           ELSE /\ recordedBarriers + Len(loop.barriers) <= MaxBarriers
                /\ m_resourceStates' = loop.states
                /\ recordedBarriers' = recordedBarriers + Len(loop.barriers)
                /\ batchRet' = [cmd |-> hasCommandList, transitions |-> transitions,
                                before |-> m_resourceStates,
                                calls |-> IF loop.barriers # <<>> THEN 1 ELSE 0,
                                issued |-> loop.barriers]
        /\ UNCHANGED <<lastCall, prevCall, poolVars, descVars, usageVars, frameVars, extVars>>

DoSetResourceState ==
    \E r \in Resources, st \in ResourceStates : SetResourceState(r, st)

\* one TransitionResources call on a state table and a list of any content
DoTransitionResources ==
    /\ batchRet = NoBatchRet
    /\ \E cmd \in BOOLEAN, n \in 0..MaxBatch :
          \E transitions \in [1..n -> [resource : Resources, state : ResourceStates]] :
              TransitionResources(cmd, transitions)

DoTransitionResource ==
    \E cmd \in BOOLEAN, r \in Resources \cup {NullResource}, st \in ResourceStates :
        TransitionResource(cmd, r, st)

StateNext ==
    \/ DoSetResourceState
    \/ DoTransitionResource

(***************************************************************************)
(* ResourceManager: usage table, pinning and eviction                      *)
(*                                                                         *)
(* A tracking id contains the resource's address, so ids and resources     *)
(* correspond one to one and both are named by the same number.            *)
(*                                                                         *)
(* m_mutex is a std::mutex, and several operations lock it while the       *)
(* calling thread already holds it (TrackResource and SetCacheLimit call   *)
(* GetTotalMemoryUsage, ReleaseUnusedResources and TrimCache call          *)
(* ReleaseResource).  That is undefined behaviour; the outcomes a build    *)
(* produces are: the second lock succeeds (the lock counts its owner's     *)
(* acquisitions), lock() throws std::system_error, or the thread blocks    *)
(* for ever.  The outcome is chosen at the first such lock and is the same *)
(* from then on.                                                           *)
(***************************************************************************)
ResourceTypes == {"Texture", "UploadBuffer"}
\* the keys of m_memoryUsageByType: constant buffers are counted as Buffer
MemoryTypes == ResourceTypes \cup {"Buffer"}
ResourceSizes == {100, 160}
CacheLimits == {0, 100, DefaultCacheLimit}
RelockOutcomes == {"proceeds", "throws", "deadlocks"}

\* m_resourceUsage.find(id) == m_resourceUsage.end()
NoUsage == [present |-> FALSE, lastUsed |-> 0, size |-> 0, isPinned |-> FALSE]

NoUsageRet == [op |-> "none", outcome |-> "returned", pinnedBefore |-> {},
               expiredBefore |-> {}]

UsageInit ==
    /\ m_resourceUsage = [r \in Resources |-> NoUsage]
    /\ m_memoryUsageByType = [t \in MemoryTypes |-> 0]
    /\ m_maxCacheSize = DefaultCacheLimit
    /\ now = 0
    /\ relock = "unknown"
    /\ rmHung = FALSE
    /\ usageRet = NoUsageRet

Tracked(usage) == {r \in Resources : usage[r].present}
PinnedIn(usage) == {r \in Tracked(usage) : usage[r].isPinned}

\* `if (usage.isPinned) continue;`, with the test left out
SkipPinned_Ignored(entry) == FALSE

\* `if (usage.isPinned) continue;` and `if (!usage.isPinned)`
SkipPinned(entry) == entry.isPinned

\* the ids ReleaseUnusedResources collects in toRemove
Expired(usage, maxAge) ==
    {r \in Tracked(usage) : ~SkipPinned(usage[r]) /\ (now - usage[r].lastUsed) > maxAge}

RECURSIVE SumOver(_, _)
SumOver(f, S) ==
    IF S = {} THEN 0
    ELSE LET x == CHOOSE y \in S : TRUE IN f[x] + SumOver(f, S \ {x})

\* GetTotalMemoryUsage
GetTotalMemoryUsage(memory) == SumOver(memory, MemoryTypes)

\* ReleaseResource(id): only the usage entry is erased
EraseUsage(usage, id) == [usage EXCEPT ![id] = NoUsage]

\* the orders std::sort may leave the candidates in: oldest first, equal
\* timestamps in any order
SortedOrders(usage, S) ==
    {o \in [1..Cardinality(S) -> S] :
        /\ \A i, j \in 1..Cardinality(S) : i # j => o[i] # o[j]
        /\ \A i, j \in 1..Cardinality(S) :
               i < j => usage[o[i]].lastUsed <= usage[o[j]].lastUsed}

\* the loop of TrimCache over the sorted candidates
RECURSIVE TrimLoop(_, _, _, _, _)
TrimLoop(usage, order, i, freed, needToFree) ==
    IF i > Len(order) THEN usage
    ELSE LET id == order[i]
             freedNow == freed + usage[id].size
         IN  IF freedNow >= needToFree
             THEN EraseUsage(usage, id)
             ELSE TrimLoop(EraseUsage(usage, id), order, i + 1, freedNow, needToFree)

\* TrimCache, for a thread on which locking m_mutex again succeeds: the
\* usage tables it can leave
TrimCache(usage, memory, maxCacheSize) ==
    LET currentUsage == GetTotalMemoryUsage(memory)
        needToFree == currentUsage - maxCacheSize + (maxCacheSize \div 10)
        candidates == {r \in Tracked(usage) : ~SkipPinned(usage[r])}
    IN  IF currentUsage <= maxCacheSize THEN {usage}
        ELSE {TrimLoop(usage, o, 1, 0, needToFree) : o \in SortedOrders(usage, candidates)}

\* the second lock of m_mutex on the owning thread
Relocks(outcome) ==
    /\ relock \in {"unknown", outcome}
    /\ relock' = outcome
    /\ rmHung' = (outcome = "deadlocks")

OutcomeOf(outcome) ==
    CASE outcome = "proceeds" -> "returned"
      [] outcome = "throws" -> "threw"
      [] outcome = "deadlocks" -> "hung"

TrackResource(id, type, size, initialState, outcome) ==
    LET usage1 == [m_resourceUsage EXCEPT
                      ![id] = [present |-> TRUE, lastUsed |-> now, size |-> size,
                               isPinned |-> FALSE]]
        memory1 == [m_memoryUsageByType EXCEPT ![type] = @ + size]
    IN  /\ ~rmHung
        /\ GetTotalMemoryUsage(memory1) <= MaxMemory
        /\ m_resourceStates' = [m_resourceStates EXCEPT ![id] = initialState]
        /\ m_memoryUsageByType' = memory1
        /\ Relocks(outcome)
        /\ IF outcome = "proceeds" /\ GetTotalMemoryUsage(memory1) > m_maxCacheSize
           THEN m_resourceUsage' \in TrimCache(usage1, memory1, m_maxCacheSize)
           ELSE m_resourceUsage' = usage1
        /\ usageRet' = [op |-> "TrackResource", outcome |-> OutcomeOf(outcome),
                        pinnedBefore |-> PinnedIn(m_resourceUsage) \ {id},
                        expiredBefore |-> {}]
        /\ UNCHANGED <<m_maxCacheSize, now, recordedBarriers, lastCall, prevCall, batchRet,
                       poolVars, descVars, frameVars, bridgeVars, copyVars, loopVars>>

ReleaseResource(id) ==
    /\ ~rmHung
    /\ m_resourceUsage' = EraseUsage(m_resourceUsage, id)
    /\ usageRet' = [NoUsageRet EXCEPT !.op = "ReleaseResource"]
    /\ UNCHANGED <<m_memoryUsageByType, m_maxCacheSize, now, relock, rmHung,
                   poolVars, descVars, stateVars, frameVars, extVars>>

ReleaseUnusedResources(maxAge, outcome) ==
    LET toRemove == Expired(m_resourceUsage, maxAge)
        ret == [op |-> "ReleaseUnusedResources", outcome |-> "returned",
                pinnedBefore |-> PinnedIn(m_resourceUsage), expiredBefore |-> toRemove]
    IN  /\ ~rmHung
        /\ IF toRemove = {}
           THEN /\ outcome = "proceeds"
                /\ usageRet' = ret
                /\ UNCHANGED <<m_resourceUsage, relock, rmHung>>
           ELSE /\ Relocks(outcome)
                /\ usageRet' = [ret EXCEPT !.outcome = OutcomeOf(outcome)]
                /\ m_resourceUsage' =
                      IF outcome = "proceeds"
                      THEN [r \in Resources |->
                               IF r \in toRemove THEN NoUsage ELSE m_resourceUsage[r]]
                      ELSE m_resourceUsage
        /\ UNCHANGED <<m_memoryUsageByType, m_maxCacheSize, now,
                       poolVars, descVars, stateVars, frameVars, extVars>>

NotifyResourceUsed(id) ==
    /\ ~rmHung
    /\ m_resourceUsage' =
          IF m_resourceUsage[id].present
          THEN [m_resourceUsage EXCEPT ![id].lastUsed = now]
          ELSE m_resourceUsage
    /\ usageRet' = [NoUsageRet EXCEPT !.op = "NotifyResourceUsed"]
    /\ UNCHANGED <<m_memoryUsageByType, m_maxCacheSize, now, relock, rmHung,
                   poolVars, descVars, stateVars, frameVars, extVars>>

PinResource(id, pin) ==
    /\ ~rmHung
    /\ m_resourceUsage' =
          IF m_resourceUsage[id].present
          THEN [m_resourceUsage EXCEPT ![id].isPinned = pin]
          ELSE m_resourceUsage
    /\ usageRet' = [NoUsageRet EXCEPT !.op = "PinResource"]
    /\ UNCHANGED <<m_memoryUsageByType, m_maxCacheSize, now, relock, rmHung,
                   poolVars, descVars, stateVars, frameVars, extVars>>

SetCacheLimit(maxMemorySizeBytes, outcome) ==
    /\ ~rmHung
    /\ m_maxCacheSize' = maxMemorySizeBytes
    /\ Relocks(outcome)
    /\ IF outcome = "proceeds"
          /\ GetTotalMemoryUsage(m_memoryUsageByType) > maxMemorySizeBytes
       THEN m_resourceUsage' \in
                TrimCache(m_resourceUsage, m_memoryUsageByType, maxMemorySizeBytes)
       ELSE m_resourceUsage' = m_resourceUsage
    /\ usageRet' = [op |-> "SetCacheLimit", outcome |-> OutcomeOf(outcome),
                    pinnedBefore |-> PinnedIn(m_resourceUsage), expiredBefore |-> {}]
    /\ UNCHANGED <<m_memoryUsageByType, now, poolVars, descVars, stateVars, frameVars, extVars>>

\* time passes
Tick ==
    /\ now < MaxTime
    /\ now' = now + 1
    /\ UNCHANGED <<m_resourceUsage, m_memoryUsageByType, m_maxCacheSize, relock,
                   rmHung, usageRet, poolVars, descVars, stateVars, frameVars, extVars>>

\* the state the Create* operations track a new resource in: the browser
\* texture is created for pixel-shader reads, an upload buffer is in
\* GENERIC_READ
CreationState(type) ==
    IF type = "Texture" THEN "PIXEL_SHADER_RESOURCE" ELSE "GENERIC_READ"

DoTrackResource ==
    \E id \in Resources, t \in ResourceTypes, sz \in ResourceSizes,
       o \in RelockOutcomes :
        /\ ~m_resourceUsage[id].present
        /\ TrackResource(id, t, sz, CreationState(t), o)
        /\ UNCHANGED createVars

DoReleaseResource == \E id \in Resources : ReleaseResource(id)

DoReleaseUnusedResources ==
    \E maxAge \in 0..MaxAge, o \in RelockOutcomes : ReleaseUnusedResources(maxAge, o)

DoNotifyResourceUsed == \E id \in Resources : NotifyResourceUsed(id)

DoPinResource == \E id \in Resources, pin \in BOOLEAN : PinResource(id, pin)

DoSetCacheLimit ==
    \E limit \in CacheLimits, o \in RelockOutcomes : SetCacheLimit(limit, o)

UsageNext ==
    \/ DoTrackResource
    \/ DoReleaseResource
    \/ DoReleaseUnusedResources
    \/ DoNotifyResourceUsed
    \/ DoPinResource
    \/ DoSetCacheLimit
    \/ Tick

(***************************************************************************)
(* RenderSystem's frame and fence logic, the GPU, and WinMain's loop       *)
(*                                                                         *)
(* The main thread runs the loop of WinMain: Update (in which the browser  *)
(* may call OnPaint), BeginFrame, the browser texture copy, EndFrame.      *)
(* WaitForGpu and Resize are called between frames.  The GPU executes the  *)
(* command queue in order, on its own.                                     *)
(***************************************************************************)
FrameSlots == 0..(FrameCount - 1)

NullBuffer == 0

ListItem(slot, readsUpload) ==
    [kind |-> "list", slot |-> slot, value |-> 0, readsUpload |-> readsUpload]

SignalItem(value) ==
    [kind |-> "signal", slot |-> 0, value |-> value, readsUpload |-> FALSE]

NoSignal == [by |-> "none", value |-> 0]

NoCopy == [wrote |-> FALSE, buffer |-> NullBuffer, producerActive |-> FALSE,
           gpuReadPending |-> FALSE]

FrameInit ==
    /\ pc = "top"
    /\ m_frameIndex = 0
    /\ m_fenceValues = [i \in FrameSlots |-> 0]
    /\ backBufferIndex = 0
    /\ m_fence = 0
    /\ gpuQueue = <<>>
    /\ fenceEvent = FALSE
    /\ waitTarget = 0
    /\ movedFrom = 0
    /\ listReadsUpload = FALSE
    /\ m_cpuBufferData = NullBuffer
    /\ m_textureNeedsGPUCopy = FALSE
    /\ paintBuffer = NullBuffer
    /\ nextBuffer = 1
    /\ resetPending = FALSE
    /\ lastCopy = NoCopy
    /\ sigLast = NoSignal
    /\ sigPrev = NoSignal
    /\ sigMax = 0
    /\ copyCount = [b \in 1..MaxDeliveries |-> 0]
    /\ overwritten = FALSE
    /\ recorded = <<>>
    /\ uiStartState = "none"

MaxOf2(a, b) == IF a >= b THEN a ELSE b

\* a command list recorded with the allocator of `slot` is still queued
ListPending(slot) ==
    \E i \in 1..Len(gpuQueue) : gpuQueue[i].kind = "list" /\ gpuQueue[i].slot = slot

\* a queued command list copies from the upload (staging) buffer
UploadReadPending ==
    \E i \in 1..Len(gpuQueue) : gpuQueue[i].kind = "list" /\ gpuQueue[i].readsUpload

\* m_commandQueue->Signal(m_fence, value), issued by `by`
QueueSignal(queue, value, by) ==
    /\ gpuQueue' = Append(queue, SignalItem(value))
    /\ sigPrev' = sigLast
    /\ sigLast' = [by |-> by, value |-> value]
    /\ sigMax' = MaxOf2(sigMax, value)

\* `currentFenceValue + 1` with the increment left out
NextFenceValue_Same(currentFenceValue) == currentFenceValue + 0

\* `m_fenceValues[m_frameIndex] = currentFenceValue + 1`
NextFenceValue(currentFenceValue) == currentFenceValue + 1

\* ---- BrowserView::Update and the paint callback -------------------------
\* Update calls CefDoMessageLoopWork, which runs on the calling thread
\* (multi_threaded_message_loop is false) and may call OnPaint.
UpdateBegin ==
    /\ pc = "top"
    /\ ~m_processingIsSuspended
    /\ pc' = "inUpdate"
    /\ UNCHANGED <<m_frameIndex, m_fenceValues, backBufferIndex, m_fence, gpuQueue,
                   fenceEvent, waitTarget, movedFrom, listReadsUpload, m_cpuBufferData,
                   m_textureNeedsGPUCopy, paintBuffer, nextBuffer, resetPending,
                   lastCopy, sigLast, sigPrev, sigMax>>
    /\ UNCHANGED <<poolVars, descVars, stateVars, usageVars, extVars>>

\* BrowserHandler::OnPaint -> BrowserManager::OnPaint ->
\* SignalTextureUpdateFromHandler: the pointer is stored, not the pixels
OnPaint ==
    /\ pc = "inUpdate"
    /\ nextBuffer <= MaxDeliveries
    /\ pc' = "inPaint"
    /\ paintBuffer' = nextBuffer
    /\ nextBuffer' = nextBuffer + 1
    /\ m_cpuBufferData' = nextBuffer
    /\ m_textureNeedsGPUCopy' = TRUE
    /\ overwritten' = (overwritten \/ (m_cpuBufferData # NullBuffer
                                          /\ copyCount[m_cpuBufferData] = 0))
    /\ UNCHANGED <<m_frameIndex, m_fenceValues, backBufferIndex, m_fence, gpuQueue,
                   fenceEvent, waitTarget, movedFrom, listReadsUpload, resetPending,
                   lastCopy, sigLast, sigPrev, sigMax>>
    /\ UNCHANGED <<poolVars, descVars, stateVars, usageVars, bridgeVars, copyVars, createVars,
                   copyCount, recorded, uiStartState>>

\* OnPaint returns to the browser: the buffer is the browser's again
OnPaintReturn ==
    /\ pc = "inPaint"
    /\ pc' = "inUpdate"
    /\ paintBuffer' = NullBuffer
    /\ UNCHANGED <<m_frameIndex, m_fenceValues, backBufferIndex, m_fence, gpuQueue,
                   fenceEvent, waitTarget, movedFrom, listReadsUpload, m_cpuBufferData,
                   m_textureNeedsGPUCopy, nextBuffer, resetPending, lastCopy,
                   sigLast, sigPrev, sigMax>>
    /\ UNCHANGED <<poolVars, descVars, stateVars, usageVars, extVars>>

\* Update while processing is suspended returns at once
UpdateSuspended ==
    /\ pc = "top"
    /\ m_processingIsSuspended
    /\ pc' = "updated"
    /\ UNCHANGED <<m_frameIndex, m_fenceValues, backBufferIndex, m_fence, gpuQueue,
                   fenceEvent, waitTarget, movedFrom, listReadsUpload, m_cpuBufferData,
                   m_textureNeedsGPUCopy, paintBuffer, nextBuffer, resetPending,
                   lastCopy, sigLast, sigPrev, sigMax>>
    /\ UNCHANGED <<poolVars, descVars, stateVars, usageVars, extVars>>

UpdateEnd ==
    /\ pc = "inUpdate"
    /\ pc' = "updated"
    /\ UNCHANGED <<m_frameIndex, m_fenceValues, backBufferIndex, m_fence, gpuQueue,
                   fenceEvent, waitTarget, movedFrom, listReadsUpload, m_cpuBufferData,
                   m_textureNeedsGPUCopy, paintBuffer, nextBuffer, resetPending,
                   lastCopy, sigLast, sigPrev, sigMax>>
    /\ UNCHANGED <<poolVars, descVars, stateVars, usageVars, extVars>>

\* ---- RenderSystem::BeginFrame -------------------------------------------
\* resets the allocator of the current slot and reopens the command list;
\* it does not wait
BeginFrame ==
    /\ pc = "updated"
    /\ pc' = "recording"
    /\ resetPending' = ListPending(m_frameIndex)
    /\ listReadsUpload' = FALSE
    /\ recorded' = <<>>
    /\ UNCHANGED <<m_frameIndex, m_fenceValues, backBufferIndex, m_fence, gpuQueue,
                   fenceEvent, waitTarget, movedFrom, m_cpuBufferData,
                   m_textureNeedsGPUCopy, paintBuffer, nextBuffer, lastCopy,
                   sigLast, sigPrev, sigMax>>
    /\ UNCHANGED <<poolVars, descVars, stateVars, usageVars, bridgeVars, copyVars, createVars,
                   copyCount, overwritten, uiStartState>>

\* ---- WinMain: the browser texture copy ----------------------------------
\* m_browserTexture; a texture the tracker has no entry for reads as COMMON
BrowserTexture == 1

\* TransitionResource on a command list, as a function: the state table it
\* leaves and the barriers it appends
TransitionOn(states, resource, newState) ==
    LET currentState == IF states[resource] # NoEntry THEN states[resource] ELSE "COMMON"
    IN  IF currentState = newState
        THEN [states |-> states, commands |-> <<>>]
        ELSE [states |-> StoreState(states, resource, newState),
              commands |-> <<[cmd |-> "barrier", before |-> currentState,
                              after |-> newState]>>]

CopyCommand == [cmd |-> "copy", before |-> "COPY_DEST", after |-> "COPY_DEST"]

DrawCommand(state) == [cmd |-> "ui", before |-> state, after |-> state]

\* steps 2 and 3 of the copy block without the transition back
RecordTextureCopy_NoRestore(states, texture) ==
    LET toCopy == TransitionOn(states, texture, "COPY_DEST")
    IN  [states |-> toCopy.states, commands |-> toCopy.commands \o <<CopyCommand>>]

\* steps 2 and 3 of the copy block: TransitionResource to COPY_DEST,
\* CopyTextureRegion, TransitionResource to PIXEL_SHADER_RESOURCE
RecordTextureCopy(states, texture) ==
    LET toCopy == TransitionOn(states, texture, "COPY_DEST")
        back == TransitionOn(toCopy.states, texture, "PIXEL_SHADER_RESOURCE")
    IN  [states |-> back.states,
         commands |-> toCopy.commands \o <<CopyCommand>> \o back.commands]

\* reads the stored pointer, writes the upload buffer row by row, records
\* the transitions and the copy from the upload buffer, and clears the flag
TextureCopy ==
    /\ pc = "recording"
    /\ pc' = "copied"
    /\ IF m_textureNeedsGPUCopy /\ m_cpuBufferData # NullBuffer
       THEN /\ lastCopy' = [wrote |-> TRUE, buffer |-> m_cpuBufferData,
                            producerActive |-> (paintBuffer = m_cpuBufferData),
                            gpuReadPending |-> UploadReadPending]
            /\ listReadsUpload' = TRUE
            /\ copyCount' = [copyCount EXCEPT ![m_cpuBufferData] =
                                 IF @ < MaxCopies THEN @ + 1 ELSE @]
            /\ m_resourceStates' = RecordTextureCopy(m_resourceStates, BrowserTexture).states
            /\ recorded' =
                  recorded \o RecordTextureCopy(m_resourceStates, BrowserTexture).commands
       ELSE /\ lastCopy' = NoCopy
            /\ UNCHANGED <<listReadsUpload, copyCount, m_resourceStates, recorded>>
    /\ m_textureNeedsGPUCopy' = FALSE
    /\ UNCHANGED <<m_frameIndex, m_fenceValues, backBufferIndex, m_fence, gpuQueue,
                   fenceEvent, waitTarget, movedFrom, m_cpuBufferData, paintBuffer,
                   nextBuffer, resetPending, sigLast, sigPrev, sigMax>>
    /\ UNCHANGED <<recordedBarriers, lastCall, prevCall, batchRet, poolVars, descVars,
                   usageVars,
                   bridgeVars, copyVars, createVars, overwritten, uiStartState>>

\* ---- WinMain: UI rendering ---------------------------------------------
\* imguiSystem->BeginFrame(); uiSystem->Render(); imguiSystem->EndFrame():
\* the UI draws, which read the browser texture, go on the command list
RenderUI ==
    /\ pc = "copied"
    /\ pc' = "uiDone"
    /\ uiStartState' = GetResourceState(BrowserTexture)
    /\ recorded' = Append(recorded, DrawCommand(GetResourceState(BrowserTexture)))
    /\ UNCHANGED frameVarsButPc
    /\ UNCHANGED <<poolVars, descVars, stateVars, usageVars, bridgeVars, copyVars, createVars,
                   copyCount, overwritten>>

\* ---- RenderSystem::EndFrame and MoveToNextFrame -------------------------
\* ExecuteCommandLists, Present, Signal(m_fenceValues[m_frameIndex]), then
\* MoveToNextFrame up to its wait
EndFrame ==
    LET currentFenceValue == m_fenceValues[m_frameIndex]
        presented == (backBufferIndex + 1) % FrameCount
    IN  /\ pc = "uiDone"
        /\ currentFenceValue < MaxSignal
        /\ Len(gpuQueue) + 2 <= MaxGpuQueue
        /\ QueueSignal(Append(gpuQueue, ListItem(m_frameIndex, listReadsUpload)),
                       currentFenceValue, "EndFrame")
        /\ backBufferIndex' = presented
        /\ m_frameIndex' = presented
        /\ IF m_fence < m_fenceValues[presented]
           THEN /\ pc' = "waitMove"
                /\ waitTarget' = m_fenceValues[presented]
                /\ movedFrom' = currentFenceValue
                /\ UNCHANGED m_fenceValues
           ELSE /\ pc' = "top"
                /\ m_fenceValues' =
                      [m_fenceValues EXCEPT ![presented] = NextFenceValue(currentFenceValue)]
                /\ UNCHANGED <<waitTarget, movedFrom>>
        /\ fenceEvent' = FALSE
        /\ UNCHANGED <<m_fence, listReadsUpload, m_cpuBufferData,
                       m_textureNeedsGPUCopy, paintBuffer, nextBuffer, resetPending, lastCopy>>
        /\ UNCHANGED <<poolVars, descVars, stateVars, usageVars, extVars>>

\* WaitForSingleObject in MoveToNextFrame returns
MoveToNextFrameResume ==
    /\ pc = "waitMove"
    /\ fenceEvent
    /\ fenceEvent' = FALSE
    /\ m_fenceValues' = [m_fenceValues EXCEPT ![m_frameIndex] = NextFenceValue(movedFrom)]
    /\ pc' = "top"
    /\ UNCHANGED <<m_frameIndex, backBufferIndex, m_fence, gpuQueue, waitTarget,
                   movedFrom, listReadsUpload, m_cpuBufferData, m_textureNeedsGPUCopy,
                   paintBuffer, nextBuffer, resetPending, lastCopy, sigLast, sigPrev, sigMax>>
    /\ UNCHANGED <<poolVars, descVars, stateVars, usageVars, extVars>>

\* ---- RenderSystem::WaitForGpu -------------------------------------------
\* Signal(m_fenceValues[m_frameIndex]) and SetEventOnCompletion on that
\* value; the event is set at once when the fence is already there
WaitForGpuBegin(waitingPc) ==
    LET target == m_fenceValues[m_frameIndex]
    IN  /\ target < MaxSignal
        /\ Len(gpuQueue) < MaxGpuQueue
        /\ QueueSignal(gpuQueue, target, "WaitForGpu")
        /\ waitTarget' = target
        /\ fenceEvent' = (m_fence >= target)
        /\ pc' = waitingPc
        /\ UNCHANGED <<m_frameIndex, m_fenceValues, backBufferIndex, m_fence, movedFrom,
                       listReadsUpload, m_cpuBufferData, m_textureNeedsGPUCopy,
                       paintBuffer, nextBuffer, resetPending, lastCopy>>
        /\ UNCHANGED <<poolVars, descVars, stateVars, usageVars, extVars>>

WaitForGpu ==
    /\ pc = "top"
    /\ WaitForGpuBegin("waitGpu")

\* WaitForSingleObject in WaitForGpu returns: m_fenceValues[m_frameIndex]++
WaitForGpuResume ==
    /\ pc = "waitGpu"
    /\ fenceEvent
    /\ fenceEvent' = FALSE
    /\ m_fenceValues' = [m_fenceValues EXCEPT ![m_frameIndex] = @ + 1]
    /\ pc' = "top"
    /\ UNCHANGED <<m_frameIndex, backBufferIndex, m_fence, gpuQueue, waitTarget,
                   movedFrom, listReadsUpload, m_cpuBufferData, m_textureNeedsGPUCopy,
                   paintBuffer, nextBuffer, resetPending, lastCopy, sigLast, sigPrev, sigMax>>
    /\ UNCHANGED <<poolVars, descVars, stateVars, usageVars, extVars>>

\* ---- RenderSystem::Resize -----------------------------------------------
\* returns at once for a width or height that is not positive; otherwise
\* WaitForGpu, ResizeBuffers, and m_frameIndex = GetCurrentBackBufferIndex()
Resize(validSize) ==
    /\ pc = "top"
    /\ IF validSize
       THEN WaitForGpuBegin("waitResize")
       ELSE UNCHANGED vars

\* the rest of Resize, once its WaitForGpu has its event; ResizeBuffers
\* makes buffer 0 the current back buffer
ResizeResume ==
    /\ pc = "waitResize"
    /\ fenceEvent
    /\ fenceEvent' = FALSE
    /\ m_fenceValues' = [m_fenceValues EXCEPT ![m_frameIndex] = @ + 1]
    /\ backBufferIndex' = 0
    /\ m_frameIndex' = 0
    /\ pc' = "top"
    /\ UNCHANGED <<m_fence, gpuQueue, waitTarget, movedFrom, listReadsUpload,
                   m_cpuBufferData, m_textureNeedsGPUCopy, paintBuffer, nextBuffer,
                   resetPending, lastCopy, sigLast, sigPrev, sigMax>>
    /\ UNCHANGED <<poolVars, descVars, stateVars, usageVars, extVars>>

DoResize == \E validSize \in BOOLEAN : Resize(validSize)

\* ---- the GPU ------------------------------------------------------------
\* executes the head of the queue; a Signal sets the fence to its value and
\* sets the event of a waiter whose value is reached
GpuExecute ==
    /\ gpuQueue # <<>>
    /\ gpuQueue' = Tail(gpuQueue)
    /\ IF Head(gpuQueue).kind = "signal"
       THEN /\ m_fence' = Head(gpuQueue).value
            /\ fenceEvent' = (fenceEvent \/
                                (pc \in {"waitMove", "waitGpu", "waitResize"}
                                   /\ Head(gpuQueue).value >= waitTarget))
       ELSE UNCHANGED <<m_fence, fenceEvent>>
    /\ UNCHANGED <<pc, m_frameIndex, m_fenceValues, backBufferIndex, waitTarget, movedFrom,
                   listReadsUpload, m_cpuBufferData, m_textureNeedsGPUCopy, paintBuffer,
                   nextBuffer, resetPending, lastCopy, sigLast, sigPrev, sigMax>>
    /\ UNCHANGED <<poolVars, descVars, stateVars, usageVars, extVars>>

\* the loop of WinMain and the GPU
FrameLoopNext ==
    \/ UpdateBegin
    \/ OnPaint
    \/ OnPaintReturn
    \/ UpdateEnd
    \/ BeginFrame
    \/ TextureCopy
    \/ RenderUI
    \/ EndFrame
    \/ MoveToNextFrameResume
    \/ GpuExecute

\* the loop with WaitForGpu and Resize between frames
FrameNext ==
    \/ FrameLoopNext
    \/ WaitForGpu
    \/ WaitForGpuResume
    \/ DoResize
    \/ ResizeResume

(***************************************************************************)
(* BrowserView: the pending-update record, access by access                *)
(*                                                                         *)
(* The record is m_cpuBufferData, m_cpuBufferWidth, m_cpuBufferHeight and  *)
(* m_textureNeedsGPUCopy.  A painting thread runs the paint callback; the  *)
(* main thread runs the copy block of WinMain and BrowserView's own        *)
(* operations.  Each access to a field is one step.  The width and height  *)
(* of a delivery are named by the delivery, 0 being the reset value.       *)
(***************************************************************************)
\* the frame variables the bridge operations do not touch
renderVars == <<pc, m_frameIndex, m_fenceValues, backBufferIndex, m_fence, gpuQueue,
                fenceEvent, waitTarget, movedFrom, listReadsUpload, resetPending,
                lastCopy, sigLast, sigPrev, sigMax>>

Unlocked == "none"

NoSnapshot == [complete |-> FALSE, pointer |-> NullBuffer, width |-> 0, height |-> 0]

NoAccess == [by |-> "none", field |-> "none", kind |-> "none", locked |-> TRUE]

\* an access by `thread`, with whether that thread holds m_bufferMutex
Access(thread, field, kind) ==
    [by |-> thread, field |-> field, kind |-> kind, locked |-> (m_bufferMutex = thread)]

BridgeInit ==
    /\ m_cpuBufferWidth = 0
    /\ m_cpuBufferHeight = 0
    /\ m_bufferMutex = Unlocked
    /\ m_processingIsSuspended = FALSE
    /\ producerPc = "idle"
    /\ mainPc = "idle"
    /\ raiseAfter = FALSE
    /\ snapshot = NoSnapshot
    /\ lastAccess = NoAccess

\* what a bridge step leaves alone besides the variables it names
BridgeFrame ==
    UNCHANGED <<poolVars, descVars, stateVars, usageVars, renderVars, copyVars, loopVars,
                createVars>>

\* ---- SignalTextureUpdateFromHandler, on the painting thread -------------
\* std::lock_guard<std::mutex> lock(m_bufferMutex)
PaintLock ==
    /\ producerPc = "idle"
    /\ nextBuffer <= MaxDeliveries
    /\ m_bufferMutex = Unlocked
    /\ m_bufferMutex' = "producer"
    /\ producerPc' = "locked"
    /\ paintBuffer' = nextBuffer
    /\ nextBuffer' = nextBuffer + 1
    /\ UNCHANGED <<m_cpuBufferData, m_textureNeedsGPUCopy, m_cpuBufferWidth,
                   m_cpuBufferHeight, m_processingIsSuspended, mainPc, raiseAfter,
                   snapshot, lastAccess>>
    /\ BridgeFrame

\* m_cpuBufferData = buffer
PaintStorePointer ==
    /\ producerPc = "locked"
    /\ m_cpuBufferData' = paintBuffer
    /\ lastAccess' = Access("producer", "pointer", "write")
    /\ producerPc' = "pointer"
    /\ UNCHANGED <<m_textureNeedsGPUCopy, paintBuffer, nextBuffer, m_cpuBufferWidth,
                   m_cpuBufferHeight, m_bufferMutex, m_processingIsSuspended, mainPc,
                   raiseAfter, snapshot>>
    /\ BridgeFrame

\* m_cpuBufferWidth = width
PaintStoreWidth ==
    /\ producerPc = "pointer"
    /\ m_cpuBufferWidth' = paintBuffer
    /\ lastAccess' = Access("producer", "width", "write")
    /\ producerPc' = "width"
    /\ UNCHANGED <<m_cpuBufferData, m_textureNeedsGPUCopy, paintBuffer, nextBuffer,
                   m_cpuBufferHeight, m_bufferMutex, m_processingIsSuspended, mainPc,
                   raiseAfter, snapshot>>
    /\ BridgeFrame

\* m_cpuBufferHeight = height
PaintStoreHeight ==
    /\ producerPc = "width"
    /\ m_cpuBufferHeight' = paintBuffer
    /\ lastAccess' = Access("producer", "height", "write")
    /\ producerPc' = "height"
    /\ UNCHANGED <<m_cpuBufferData, m_textureNeedsGPUCopy, paintBuffer, nextBuffer,
                   m_cpuBufferWidth, m_bufferMutex, m_processingIsSuspended, mainPc,
                   raiseAfter, snapshot>>
    /\ BridgeFrame

\* m_textureNeedsGPUCopy = true
PaintStoreFlag ==
    /\ producerPc = "height"
    /\ m_textureNeedsGPUCopy' = TRUE
    /\ lastAccess' = Access("producer", "flag", "write")
    /\ producerPc' = "flag"
    /\ UNCHANGED <<m_cpuBufferData, paintBuffer, nextBuffer, m_cpuBufferWidth,
                   m_cpuBufferHeight, m_bufferMutex, m_processingIsSuspended, mainPc,
                   raiseAfter, snapshot>>
    /\ BridgeFrame

\* the lock_guard goes out of scope and the callback returns
PaintUnlock ==
    /\ producerPc = "flag"
    /\ m_bufferMutex' = Unlocked
    /\ producerPc' = "idle"
    /\ paintBuffer' = NullBuffer
    /\ UNCHANGED <<m_cpuBufferData, m_textureNeedsGPUCopy, nextBuffer, m_cpuBufferWidth,
                   m_cpuBufferHeight, m_processingIsSuspended, mainPc, raiseAfter,
                   snapshot, lastAccess>>
    /\ BridgeFrame

\* ---- WinMain's copy block, on the main thread ---------------------------
\* if (browserView->TextureNeedsGPUCopy()): read before the lock is taken
ConsumerCheck ==
    /\ mainPc = "idle"
    /\ lastAccess' = Access("main", "flag", "read")
    /\ mainPc' = IF m_textureNeedsGPUCopy THEN "wantLock" ELSE "idle"
    /\ snapshot' = NoSnapshot
    /\ UNCHANGED <<m_cpuBufferData, m_textureNeedsGPUCopy, paintBuffer, nextBuffer,
                   m_cpuBufferWidth, m_cpuBufferHeight, m_bufferMutex,
                   m_processingIsSuspended, producerPc, raiseAfter>>
    /\ BridgeFrame

\* std::lock_guard<std::mutex> lock(browserView->m_bufferMutex)
ConsumerLock ==
    /\ mainPc = "wantLock"
    /\ m_bufferMutex = Unlocked
    /\ m_bufferMutex' = "main"
    /\ mainPc' = "locked"
    /\ UNCHANGED <<m_cpuBufferData, m_textureNeedsGPUCopy, paintBuffer, nextBuffer,
                   m_cpuBufferWidth, m_cpuBufferHeight, m_processingIsSuspended,
                   producerPc, raiseAfter, snapshot, lastAccess>>
    /\ BridgeFrame

\* GetCpuBufferData(), GetCpuBufferWidth(), GetCpuBufferHeight()
ConsumerRead ==
    /\ mainPc \in {"locked", "readPointer", "readWidth"}
    /\ IF mainPc = "locked"
       THEN /\ snapshot' = [snapshot EXCEPT !.pointer = m_cpuBufferData]
            /\ lastAccess' = Access("main", "pointer", "read")
            /\ mainPc' = "readPointer"
       ELSE IF mainPc = "readPointer"
       THEN /\ snapshot' = [snapshot EXCEPT !.width = m_cpuBufferWidth]
            /\ lastAccess' = Access("main", "width", "read")
            /\ mainPc' = "readWidth"
       ELSE /\ snapshot' = [snapshot EXCEPT !.height = m_cpuBufferHeight,
                                            !.complete = TRUE]
            /\ lastAccess' = Access("main", "height", "read")
            /\ mainPc' = "readHeight"
    /\ UNCHANGED <<m_cpuBufferData, m_textureNeedsGPUCopy, paintBuffer, nextBuffer,
                   m_cpuBufferWidth, m_cpuBufferHeight, m_bufferMutex,
                   m_processingIsSuspended, producerPc, raiseAfter>>
    /\ BridgeFrame

\* ClearTextureUpdateFlag(), then the lock_guard goes out of scope
ConsumerClearFlag ==
    /\ mainPc = "readHeight"
    /\ m_textureNeedsGPUCopy' = FALSE
    /\ lastAccess' = Access("main", "flag", "write")
    /\ mainPc' = "cleared"
    /\ UNCHANGED <<m_cpuBufferData, paintBuffer, nextBuffer, m_cpuBufferWidth,
                   m_cpuBufferHeight, m_bufferMutex, m_processingIsSuspended,
                   producerPc, raiseAfter, snapshot>>
    /\ BridgeFrame

ConsumerUnlock ==
    /\ mainPc = "cleared"
    /\ m_bufferMutex' = Unlocked
    /\ mainPc' = "idle"
    /\ UNCHANGED <<m_cpuBufferData, m_textureNeedsGPUCopy, paintBuffer, nextBuffer,
                   m_cpuBufferWidth, m_cpuBufferHeight, m_processingIsSuspended,
                   producerPc, raiseAfter, snapshot, lastAccess>>
    /\ BridgeFrame

\* ---- BrowserView's own operations, on the main thread -------------------
\* ReleaseBrowserTextureResources: m_textureNeedsGPUCopy = false first;
\* forResize is TRUE when Resize called it
ReleaseBrowserTextureResources(forResize) ==
    /\ mainPc = "idle"
    /\ m_textureNeedsGPUCopy' = FALSE
    /\ lastAccess' = Access("main", "flag", "write")
    /\ mainPc' = "releasedFlag"
    /\ raiseAfter' = forResize
    /\ UNCHANGED <<m_cpuBufferData, paintBuffer, nextBuffer, m_cpuBufferWidth,
                   m_cpuBufferHeight, m_bufferMutex, m_processingIsSuspended,
                   producerPc, snapshot>>
    /\ BridgeFrame

\* m_cpuBufferData = nullptr; m_cpuBufferWidth = 0; m_cpuBufferHeight = 0
ReleaseReset ==
    /\ mainPc \in {"releasedFlag", "releasedPointer", "releasedWidth"}
    /\ IF mainPc = "releasedFlag"
       THEN /\ m_cpuBufferData' = NullBuffer
            /\ lastAccess' = Access("main", "pointer", "write")
            /\ mainPc' = "releasedPointer"
            /\ UNCHANGED <<m_cpuBufferWidth, m_cpuBufferHeight>>
       ELSE IF mainPc = "releasedPointer"
       THEN /\ m_cpuBufferWidth' = 0
            /\ lastAccess' = Access("main", "width", "write")
            /\ mainPc' = "releasedWidth"
            /\ UNCHANGED <<m_cpuBufferData, m_cpuBufferHeight>>
       ELSE /\ m_cpuBufferHeight' = 0
            /\ lastAccess' = Access("main", "height", "write")
            /\ mainPc' = IF raiseAfter THEN "resizeTail" ELSE "idle"
            /\ UNCHANGED <<m_cpuBufferData, m_cpuBufferWidth>>
    /\ UNCHANGED <<m_textureNeedsGPUCopy, paintBuffer, nextBuffer, m_bufferMutex,
                   m_processingIsSuspended, producerPc, raiseAfter, snapshot>>
    /\ BridgeFrame

\* BrowserView::Resize: the texture is recreated when the size changed
\* (needsResize); the last statement is m_textureNeedsGPUCopy = true
BrowserViewResize(needsResize) ==
    IF needsResize
    THEN ReleaseBrowserTextureResources(TRUE)
    ELSE /\ mainPc = "idle"
         /\ m_textureNeedsGPUCopy' = TRUE
         /\ lastAccess' = Access("main", "flag", "write")
         /\ UNCHANGED <<m_cpuBufferData, paintBuffer, nextBuffer, m_cpuBufferWidth,
                        m_cpuBufferHeight, m_bufferMutex, m_processingIsSuspended,
                        producerPc, mainPc, raiseAfter, snapshot>>
         /\ BridgeFrame

BrowserViewResizeTail ==
    /\ mainPc = "resizeTail"
    /\ m_textureNeedsGPUCopy' = TRUE
    /\ lastAccess' = Access("main", "flag", "write")
    /\ mainPc' = "idle"
    /\ raiseAfter' = FALSE
    /\ UNCHANGED <<m_cpuBufferData, paintBuffer, nextBuffer, m_cpuBufferWidth,
                   m_cpuBufferHeight, m_bufferMutex, m_processingIsSuspended,
                   producerPc, snapshot>>
    /\ BridgeFrame

\* BrowserView::SuspendProcessing: resuming raises the flag
SuspendProcessing(suspend) ==
    /\ mainPc = "idle"
    /\ m_processingIsSuspended # suspend
    /\ m_processingIsSuspended' = suspend
    /\ IF ~suspend
       THEN /\ m_textureNeedsGPUCopy' = TRUE
            /\ lastAccess' = Access("main", "flag", "write")
       ELSE UNCHANGED <<m_textureNeedsGPUCopy, lastAccess>>
    /\ UNCHANGED <<m_cpuBufferData, paintBuffer, nextBuffer, m_cpuBufferWidth,
                   m_cpuBufferHeight, m_bufferMutex, producerPc, mainPc, raiseAfter,
                   snapshot>>
    /\ BridgeFrame

DoReleaseBrowserTextureResources == ReleaseBrowserTextureResources(FALSE)

DoBrowserViewResize == \E needsResize \in BOOLEAN : BrowserViewResize(needsResize)

DoSuspendProcessing == \E suspend \in BOOLEAN : SuspendProcessing(suspend)

BridgeNext ==
    \/ PaintLock
    \/ PaintStorePointer
    \/ PaintStoreWidth
    \/ PaintStoreHeight
    \/ PaintStoreFlag
    \/ PaintUnlock
    \/ ConsumerCheck
    \/ ConsumerLock
    \/ ConsumerRead
    \/ ConsumerClearFlag
    \/ ConsumerUnlock
    \/ DoReleaseBrowserTextureResources
    \/ ReleaseReset
    \/ DoBrowserViewResize
    \/ BrowserViewResizeTail
    \/ DoSuspendProcessing

(***************************************************************************)
(* WinMain: the staged copy of the painted rows into the upload buffer     *)
(***************************************************************************)
\* a byte of the upload buffer nothing has written yet
Unwritten == 0 - 1

\* (x + alignment - 1) & ~(alignment - 1), for a power-of-two alignment:
\* the sum with its bits below the alignment cleared
AlignUp(x, alignment) ==
    (x + alignment - 1) - ((x + alignment - 1) % alignment)

\* srcRowPitch = cpuBufferWidth * 4
SrcRowPitch(width) == width * BytesPerPixel

\* dstRowPitch, and rowPitch of CreateBrowserTextureResources
DstRowPitch(width) == AlignUp(SrcRowPitch(width), PitchAlignment)

\* the painted buffer: width * height * 4 bytes, filled by the browser
PaintedBytes(width, height, pattern) ==
    [i \in 1..(SrcRowPitch(width) * height) |-> (i * (pattern + 1)) % 251]

\* the destination offset of row y, without the padding of the rows
DstOffset_Packed(y, srcRowPitch, dstRowPitch) == y * srcRowPitch

\* mappedData + y * dstRowPitch
DstOffset(y, srcRowPitch, dstRowPitch) == y * dstRowPitch

\* memcpy(dst + dstOffset, src + srcOffset, count); positions are 1-based
Memcpy(dst, dstOffset, src, srcOffset, count) ==
    [i \in 1..Len(dst) |->
        IF i > dstOffset /\ i <= dstOffset + count
        THEN src[srcOffset + (i - dstOffset)]
        ELSE dst[i]]

CopyInit ==
    /\ cpuBuffer = <<>>
    /\ cpuBufferWidth = 0
    /\ cpuBufferHeight = 0
    /\ uploadWidth = 0
    /\ mappedData = <<>>
    /\ yRow = 0
    /\ copyPc = "idle"

CopyFrame ==
    UNCHANGED <<poolVars, descVars, stateVars, usageVars, frameVars, bridgeVars, loopVars,
                createVars>>

\* the copy block finds a painted buffer of width x height and the upload
\* buffer CreateBrowserTextureResources made for a view of width x
\* viewHeight; Map; the rows are copied only if they fit
MapUpload(width, height, viewHeight, pattern) ==
    LET dstBufferSize == DstRowPitch(width) * height
        size == DstRowPitch(width) * viewHeight
    IN  /\ copyPc = "idle"
        /\ cpuBuffer' = PaintedBytes(width, height, pattern)
        /\ cpuBufferWidth' = width
        /\ cpuBufferHeight' = height
        /\ uploadWidth' = size
        /\ mappedData' = [i \in 1..size |-> Unwritten]
        /\ yRow' = 0
        /\ copyPc' = IF dstBufferSize <= size THEN "copying" ELSE "mismatch"
        /\ CopyFrame

\* one turn of `for (int y = 0; y < cpuBufferHeight; ++y) memcpy(...)`
CopyRow ==
    LET srcRowPitch == SrcRowPitch(cpuBufferWidth)
        dstRowPitch == DstRowPitch(cpuBufferWidth)
    IN  /\ copyPc = "copying"
        /\ yRow < cpuBufferHeight
        /\ mappedData' = Memcpy(mappedData, DstOffset(yRow, srcRowPitch, dstRowPitch),
                                cpuBuffer, yRow * srcRowPitch, srcRowPitch)
        /\ yRow' = yRow + 1
        /\ UNCHANGED <<cpuBuffer, cpuBufferWidth, cpuBufferHeight, uploadWidth, copyPc>>
        /\ CopyFrame

\* the loop ends; Unmap
UnmapUpload ==
    /\ copyPc = "copying"
    /\ yRow >= cpuBufferHeight
    /\ copyPc' = "copied"
    /\ UNCHANGED <<cpuBuffer, cpuBufferWidth, cpuBufferHeight, uploadWidth, mappedData, yRow>>
    /\ CopyFrame

\* the copy block ends: its locals are gone
CopyBlockEnd ==
    /\ copyPc \in {"copied", "mismatch"}
    /\ cpuBuffer' = <<>>
    /\ cpuBufferWidth' = 0
    /\ cpuBufferHeight' = 0
    /\ uploadWidth' = 0
    /\ mappedData' = <<>>
    /\ yRow' = 0
    /\ copyPc' = "idle"
    /\ CopyFrame

DoMapUpload ==
    \E width \in 1..MaxCopyWidth, height \in 1..MaxCopyHeight,
       viewHeight \in 1..MaxCopyHeight, pattern \in 0..MaxPattern :
        MapUpload(width, height, viewHeight, pattern)

CopyNext ==
    \/ DoMapUpload
    \/ CopyRow
    \/ UnmapUpload
    \/ CopyBlockEnd

(***************************************************************************)
(* Eviction while frames are in flight                                     *)
(*                                                                         *)
(* The main thread creates resources and calls ReleaseUnusedResources      *)
(* between the frames of its loop (RenderSystem::AdaptToPerformanceState   *)
(* does that in the background states); the browser paints nothing.        *)
(***************************************************************************)
\* the resources created here are textures of one size
CreateBetweenFrames ==
    /\ pc = "top"
    /\ \E id \in Resources, o \in RelockOutcomes :
          /\ ~m_resourceUsage[id].present
          /\ TrackResource(id, "Texture", 100, CreationState("Texture"), o)
          /\ UNCHANGED createVars

TimePasses ==
    /\ pc = "top"
    /\ Tick

ReleaseUnusedBetweenFrames ==
    /\ pc = "top"
    /\ DoReleaseUnusedResources

EvictionNext ==
    \/ UpdateBegin
    \/ UpdateEnd
    \/ BeginFrame
    \/ TextureCopy
    \/ RenderUI
    \/ EndFrame
    \/ MoveToNextFrameResume
    \/ GpuExecute
    \/ CreateBetweenFrames
    \/ TimePasses
    \/ ReleaseUnusedBetweenFrames

(***************************************************************************)
(* Paint deliveries against the iterations of the loop                     *)
(*                                                                         *)
(* Between two iterations the main thread may call BrowserView::Resize     *)
(* with the size it has (SetRenderQuality does) and SuspendProcessing.     *)
(***************************************************************************)
ResizeBetweenFrames ==
    /\ pc = "top"
    /\ BrowserViewResize(FALSE)

SuspendBetweenFrames ==
    /\ pc = "top"
    /\ DoSuspendProcessing

DeliveryNext ==
    \/ UpdateBegin
    \/ UpdateSuspended
    \/ OnPaint
    \/ OnPaintReturn
    \/ UpdateEnd
    \/ BeginFrame
    \/ TextureCopy
    \/ RenderUI
    \/ EndFrame
    \/ MoveToNextFrameResume
    \/ GpuExecute
    \/ ResizeBetweenFrames
    \/ SuspendBetweenFrames

(***************************************************************************)
(* ResourceManager: CreateTexture2D, CreateUploadBuffer,                   *)
(* CreateConstantBuffer                                                    *)
(*                                                                         *)
(* hasDevice is FALSE when m_renderSystem or its device is null, accepted  *)
(* is FALSE when CreateCommittedResource fails.                            *)
(***************************************************************************)
NoCreateRet == [op |-> "none", hasDevice |-> TRUE, accepted |-> TRUE,
                handle |-> NullResource, call |-> 0]

NoAlignedSize == [size |-> 0, width |-> 0, computed |-> FALSE]

\* the view after BrowserView::Initialize: the texture and the upload buffer
\* are made for m_width x m_height, the browser renders at the internal
\* size; rendered is the size of the frame the browser is still rendering,
\* cpuBuffer* the pending paint, region the last CopyTextureRegion recorded
InitialView ==
    [m_width |-> MaxCopyWidth, m_height |-> 1, quality |-> 1,
     m_browserInternalWidth |-> MaxCopyWidth, m_browserInternalHeight |-> 1,
     renderedWidth |-> MaxCopyWidth, renderedHeight |-> 1,
     textureWidth |-> MaxCopyWidth, textureHeight |-> 1,
     uploadSize |-> DstRowPitch(MaxCopyWidth),
     m_textureNeedsGPUCopy |-> FALSE, cpuBufferWidth |-> 0, cpuBufferHeight |-> 0,
     region |-> [copied |-> FALSE, width |-> 0, height |-> 0, written |-> 0,
                 textureWidth |-> 0, textureHeight |-> 0, uploadSize |-> 0]]

\* a handle that was never computed
NoHandle == [index |-> 0, offset |-> 0, computed |-> FALSE]

NoSrvRet == [call |-> 0, resource |-> NullResource, wasFull |-> FALSE, heapIndex |-> 0,
             cpuHandle |-> NoHandle, written |-> FALSE]

CreateInit ==
    /\ createRet = NoCreateRet
    /\ srvRet = NoSrvRet
    /\ view = InitialView
    /\ alignedSize = NoAlignedSize

\* the two early returns, with the test of the HRESULT left out
CreationFails_DeviceOnly(hasDevice, accepted) == ~hasDevice

\* `if (!m_renderSystem || !GetDevice()) return nullptr;` and
\* `if (FAILED(hr)) return nullptr;`
CreationFails(hasDevice, accepted) == ~hasDevice \/ ~accepted

\* UINT arithmetic wraps at the width of UINT
UintWrap(x) == x % (2 ^ UintBits)

\* `UINT alignedSize = (size + 255) & ~255;`
ConstantBufferWidth(size) ==
    LET sum == UintWrap(size + 255)
    IN  sum - (sum % 256)

\* what the three operations share: the early returns, CreateCommittedResource
\* and TrackResource on the new resource `id`
CreateCommitted(op, id, type, size, initialState, hasDevice, accepted, outcome) ==
    LET fails == CreationFails(hasDevice, accepted)
    IN  /\ ~rmHung
        /\ createRet' = [op |-> op, hasDevice |-> hasDevice, accepted |-> accepted,
                         handle |-> IF fails \/ outcome # "proceeds"
                                    THEN NullResource ELSE id,
                         call |-> 1 - createRet.call]
        /\ UNCHANGED <<alignedSize, srvRet, view>>
        /\ IF fails
           THEN /\ outcome = "proceeds"
                /\ UNCHANGED <<poolVars, descVars, stateVars, usageVars, frameVars,
                               bridgeVars, copyVars, loopVars>>
           ELSE /\ ~m_resourceUsage[id].present
                /\ TrackResource(id, type, size, initialState, outcome)

CreateTexture2D(id, size, hasDevice, accepted, outcome) ==
    CreateCommitted("CreateTexture2D", id, "Texture", size, CreationState("Texture"),
                    hasDevice, accepted, outcome)

CreateUploadBuffer(id, size, hasDevice, accepted, outcome) ==
    CreateCommitted("CreateUploadBuffer", id, "UploadBuffer", size, "GENERIC_READ",
                    hasDevice, accepted, outcome)

CreateConstantBuffer(id, size, hasDevice, accepted, outcome) ==
    CreateCommitted("CreateConstantBuffer", id, "Buffer", ConstantBufferWidth(size),
                    "GENERIC_READ", hasDevice, accepted, outcome)

DoCreateTexture2D ==
    \E id \in Resources, sz \in ResourceSizes, hasDevice \in BOOLEAN, accepted \in BOOLEAN,
       o \in RelockOutcomes : CreateTexture2D(id, sz, hasDevice, accepted, o)

DoCreateUploadBuffer ==
    \E id \in Resources, sz \in ResourceSizes, hasDevice \in BOOLEAN, accepted \in BOOLEAN,
       o \in RelockOutcomes : CreateUploadBuffer(id, sz, hasDevice, accepted, o)

DoCreateConstantBuffer ==
    \E id \in Resources, sz \in ResourceSizes, hasDevice \in BOOLEAN, accepted \in BOOLEAN,
       o \in RelockOutcomes : CreateConstantBuffer(id, sz, hasDevice, accepted, o)

\* the first statement of CreateConstantBuffer, for any UINT size
AlignConstantBufferSize(size) ==
    /\ alignedSize' = [size |-> size, width |-> ConstantBufferWidth(size), computed |-> TRUE]
    /\ UNCHANGED <<createRet, srvRet, view, poolVars, descVars, stateVars, usageVars, frameVars,
                   bridgeVars, copyVars, loopVars>>

DoAlignConstantBufferSize == \E size \in 0..UINT_MAX : AlignConstantBufferSize(size)

CreateNext ==
    \/ DoCreateTexture2D
    \/ DoCreateUploadBuffer
    \/ DoCreateConstantBuffer

(***************************************************************************)
(* ResourceManager: shader resource views                                  *)
(***************************************************************************)
\* GetCpuDescriptorHandle: heap start plus index * cbvSrvUavDescriptorSize,
\* the product taken in UINT
GetCpuDescriptorHandle(index) ==
    [index |-> index, offset |-> UintWrap(index * DescriptorIncrement), computed |-> TRUE]

\* CreateShaderResourceView(resource, format)
CreateShaderResourceView ==
    \E hasDevice \in BOOLEAN, resource \in Resources \cup {NullResource} :
        LET type == "CBV_SRV_UAV"
            pool == m_descriptorPools[type]
            free == FreeSlots(pool)
            heapIndex == IF free # {} THEN MinOf(free) ELSE ExhaustedIndex(pool)
        IN  /\ IF ~hasDevice \/ resource = NullResource
               THEN /\ srvRet' = [NoSrvRet EXCEPT !.call = 1 - srvRet.call,
                                                  !.resource = resource]
                    /\ UNCHANGED descVars
               ELSE /\ IF free # {}
                       THEN /\ m_descriptorPools' =
                                  [m_descriptorPools EXCEPT ![type] = TakeSlot(pool, heapIndex)]
                            /\ liveDescriptors' =
                                  [liveDescriptors EXCEPT ![type][heapIndex] = @ + 1]
                       ELSE UNCHANGED <<m_descriptorPools, liveDescriptors>>
                    /\ descRet' = [op |-> "allocate", type |-> type, index |-> heapIndex,
                                   wasFull |-> free = {}]
                    /\ srvRet' = [call |-> 1 - srvRet.call, resource |-> resource,
                                  wasFull |-> free = {}, heapIndex |-> heapIndex,
                                  cpuHandle |-> GetCpuDescriptorHandle(heapIndex),
                                  written |-> TRUE]
            /\ UNCHANGED <<createRet, alignedSize, view, poolVars, stateVars, usageVars,
                           frameVars, bridgeVars, copyVars, loopVars>>

SrvNext ==
    \/ DoAllocateDescriptor
    \/ DoFreeDescriptor
    \/ CreateShaderResourceView

(***************************************************************************)
(* ResourceManager: ClearCache                                             *)
(*                                                                         *)
(* The callers that were given descriptor indices keep them across the     *)
(* call (BrowserView keeps m_srvDescriptorIndex until it releases its      *)
(* texture): liveDescriptors is not changed by it.                         *)
(***************************************************************************)
ClearCache ==
    /\ ~rmHung
    \* bound of the model on the callers that hold one index
    /\ \A t \in HeapTypes : \A i \in Slots : liveDescriptors[t][i] < MaxHolders
    /\ m_resourceUsage' = [r \in Resources |-> NoUsage]
    /\ m_resourceStates' = [r \in Resources |-> NoEntry]
    /\ m_memoryUsageByType' = [t \in MemoryTypes |-> 0]
    /\ m_descriptorPools' = [t \in HeapTypes |->
                                [allocated |-> [i \in Slots |-> FALSE], size |-> 0]]
    /\ UNCHANGED <<liveDescriptors, descRet, recordedBarriers, lastCall, prevCall, batchRet,
                   m_maxCacheSize, now, relock, rmHung, usageRet, poolVars, frameVars,
                   extVars>>

ClearNext ==
    \/ DoAllocateDescriptor
    \/ DoFreeDescriptor
    \/ ClearCache

(***************************************************************************)
(* BrowserView: the sizes of the view, of its texture and of the paints    *)
(*                                                                         *)
(* The browser renders off screen and hands each frame to OnPaint with the *)
(* size it rendered it at.  Resize tells the browser its new size          *)
(* (SetBrowserSize, WasResized) and returns; the frame the browser was     *)
(* rendering then still has the size before.  quality is 1 for             *)
(* m_renderQuality = 1.0 and 2 for 0.5.                                    *)
(***************************************************************************)
\* std::max(1, static_cast<int>(extent * m_renderQuality))
Scaled(extent, quality) == MaxOf2(1, extent \div quality)

\* what stays the same in all of this part
ViewFrame ==
    UNCHANGED <<createRet, alignedSize, srvRet, poolVars, descVars, stateVars, usageVars,
                frameVars, bridgeVars, copyVars, loopVars>>

\* Resize(width, height) with m_renderQuality = quality; SetRenderQuality
\* calls it with the size the view has
ResizeTo(width, height, quality) ==
    LET needsResize == view.m_width # width \/ view.m_height # height
        newInternalWidth == Scaled(width, quality)
        newInternalHeight == Scaled(height, quality)
    IN  [view EXCEPT
            !.m_width = width, !.m_height = height, !.quality = quality,
            !.m_browserInternalWidth = newInternalWidth,
            !.m_browserInternalHeight = newInternalHeight,
            !.textureWidth = width, !.textureHeight = height,
            !.uploadSize = DstRowPitch(width) * height,
            !.cpuBufferWidth = IF needsResize THEN 0 ELSE @,
            !.cpuBufferHeight = IF needsResize THEN 0 ELSE @,
            !.m_textureNeedsGPUCopy = TRUE]

ViewResize ==
    /\ \E width \in {1, MaxCopyWidth}, height \in 1..MaxCopyHeight :
          view' = ResizeTo(width, height, view.quality)
    /\ ViewFrame

SetRenderQuality ==
    /\ \E quality \in {1, 2} :
          /\ quality # view.quality
          /\ view' = ResizeTo(view.m_width, view.m_height, quality)
    /\ ViewFrame

\* the browser finishes the frame it was rendering and OnPaint stores its
\* size; the next frame is rendered at the size the handler reports now
ViewPaint ==
    /\ view' = [view EXCEPT
                   !.cpuBufferWidth = view.renderedWidth,
                   !.cpuBufferHeight = view.renderedHeight,
                   !.m_textureNeedsGPUCopy = TRUE,
                   !.renderedWidth = view.m_browserInternalWidth,
                   !.renderedHeight = view.m_browserInternalHeight]
    /\ ViewFrame

\* the copy block of the loop: the size guard, the rows, CopyTextureRegion
ViewCopy ==
    LET cpuBufferWidth_ == view.cpuBufferWidth
        cpuBufferHeight_ == view.cpuBufferHeight
        srcRowPitch == SrcRowPitch(cpuBufferWidth_)
        dstRowPitch == DstRowPitch(cpuBufferWidth_)
        dstBufferSize == dstRowPitch * cpuBufferHeight_
    IN  /\ view.m_textureNeedsGPUCopy
        /\ view' = [view EXCEPT
                       !.m_textureNeedsGPUCopy = FALSE,
                       !.region =
                          IF cpuBufferWidth_ > 0 /\ cpuBufferHeight_ > 0
                             /\ dstBufferSize <= view.uploadSize
                          THEN [copied |-> TRUE, width |-> cpuBufferWidth_,
                                height |-> cpuBufferHeight_,
                                written |-> (cpuBufferHeight_ - 1) * dstRowPitch + srcRowPitch,
                                textureWidth |-> view.textureWidth,
                                textureHeight |-> view.textureHeight,
                                uploadSize |-> view.uploadSize]
                          ELSE [@ EXCEPT !.copied = FALSE]]
        /\ ViewFrame

ViewNext ==
    \/ ViewResize
    \/ SetRenderQuality
    \/ ViewPaint
    \/ ViewCopy

(***************************************************************************)
(* The loop on the browser texture                                         *)
(*                                                                         *)
(* BrowserView::Initialize creates the browser texture before the loop     *)
(* starts; WinMain leaves when that fails or throws.                       *)
(***************************************************************************)
\* m_browserTexture = resourceManager->CreateTexture2D(..., initial state
\* PIXEL_SHADER_RESOURCE)
CreateBrowserTexture ==
    /\ pc = "top"
    /\ createRet.op = "none"
    /\ \E sz \in ResourceSizes, hasDevice \in BOOLEAN, accepted \in BOOLEAN,
          o \in RelockOutcomes :
          CreateTexture2D(BrowserTexture, sz, hasDevice, accepted, o)

\* the browser view was initialized: the loop runs
BrowserTextureReady == createRet.handle = BrowserTexture

RenderLoop ==
    /\ BrowserTextureReady
    /\ \/ UpdateBegin
       \/ OnPaint
       \/ OnPaintReturn
       \/ UpdateEnd
       \/ BeginFrame
       \/ TextureCopy
       \/ RenderUI
       \/ EndFrame
       \/ MoveToNextFrameResume
       \/ GpuExecute

RenderNext ==
    \/ CreateBrowserTexture
    \/ RenderLoop

(***************************************************************************)
(* Specifications                                                          *)
(***************************************************************************)
Init ==
    /\ PoolInit
    /\ DescInit
    /\ StateInit
    /\ UsageInit
    /\ FrameInit
    /\ BridgeInit
    /\ CopyInit
    /\ CreateInit

SpecAllocatorPool == Init /\ [][PoolNext]_vars

SpecDescriptors == Init /\ [][DescNext]_vars

SpecStates == Init /\ [][StateNext]_vars

SpecUsage == Init /\ [][UsageNext]_vars

SpecFrameLoop == Init /\ [][FrameLoopNext]_vars

SpecFrame == Init /\ [][FrameNext]_vars

\* SpecFrame with a GPU that keeps executing its queue and waits that
\* return once their event is set
SpecFrameLive ==
    /\ SpecFrame
    /\ WF_vars(GpuExecute)
    /\ WF_vars(MoveToNextFrameResume)
    /\ WF_vars(WaitForGpuResume)
    /\ WF_vars(ResizeResume)

SpecBridge == Init /\ [][BridgeNext]_vars

SpecCopy == Init /\ [][CopyNext]_vars

SpecEviction == Init /\ [][EvictionNext]_vars

SpecDelivery == Init /\ [][DeliveryNext]_vars

SpecCreate == Init /\ [][CreateNext]_vars

SpecAlign == Init /\ [][DoAlignConstantBufferSize]_vars

SpecRender == Init /\ [][RenderNext]_vars

\* the state table holds any entries SetResourceState and TrackResource can
\* have left in it
BatchInit ==
    /\ PoolInit /\ DescInit /\ UsageInit /\ FrameInit /\ BridgeInit /\ CopyInit /\ CreateInit
    /\ m_resourceStates \in [Resources -> ResourceStates \cup {NoEntry}]
    /\ recordedBarriers = 0
    /\ lastCall = NoCall
    /\ prevCall = NoCall
    /\ batchRet = NoBatchRet

SpecViews == Init /\ [][SrvNext]_vars

SpecClear == Init /\ [][ClearNext]_vars

SpecSizes == Init /\ [][ViewNext]_vars

SpecBatch == BatchInit /\ [][DoTransitionResources]_vars

(***************************************************************************)
(* C1: whenever GetCommandAllocator(c) returns an allocator, the fence     *)
(* value stored in that allocator's pool entry is at most c.               *)
(***************************************************************************)
C1_ReturnedAllocatorIsSafe ==
    poolRet.kind = "returned" => poolRet.fenceValue <= poolRet.completed

\* an allocator released with a non-zero fence value is handed out again
C1_Witness ==
    /\ poolRet.kind = "returned"
    /\ poolRet.fenceValue > 0

(***************************************************************************)
(* C2: no index is returned by AllocateDescriptor while an earlier         *)
(* allocation of the same index has not been freed: no two live            *)
(* descriptors of one pool share an index.                                 *)
(***************************************************************************)
C2_LiveDescriptorsUnique ==
    \A t \in HeapTypes : \A i \in Slots : liveDescriptors[t][i] <= 1

\* an index is handed out again after it was freed, while others are live
C2_Witness ==
    /\ descRet.op = "allocate"
    /\ descRet.index = 0
    /\ liveDescriptors[descRet.type][0] = 1
    /\ liveDescriptors[descRet.type][1] = 1
    /\ m_descriptorPools[descRet.type].size = 2

(***************************************************************************)
(* C8: when every slot of a pool is allocated, AllocateDescriptor reports  *)
(* exhaustion: the index it returns is the invalid-index marker, which is  *)
(* no slot of the pool, and the bitmap and the allocated count stay as     *)
(* they were.                                                              *)
(***************************************************************************)
C8_ExhaustionReported ==
    [][\A t \in HeapTypes :
         (FreeSlots(m_descriptorPools[t]) = {} /\ descRet'.op = "allocate"
            /\ descRet'.type = t /\ descRet' # descRet)
         => /\ descRet'.index = UINT_MAX
            /\ descRet'.index \notin Slots
            /\ m_descriptorPools'[t] = m_descriptorPools[t]
            /\ m_descriptorPools'[t].size = DescriptorCapacity]_vars

\* a full pool was asked for one more descriptor
C8_Witness ==
    /\ descRet.op = "allocate"
    /\ descRet.wasFull
    /\ m_descriptorPools[descRet.type].size = DescriptorCapacity

(***************************************************************************)
(* C6: TransitionResource(cmd, r, S) called twice in a row records exactly *)
(* one barrier in total, and the second call records none, whatever state  *)
(* r was tracked in before the first call provided it differed from S.     *)
(***************************************************************************)
TwiceInARow ==
    /\ prevCall.op = "transition" /\ lastCall.op = "transition"
    /\ prevCall.cmd /\ lastCall.cmd
    /\ prevCall.resource # NullResource
    /\ prevCall.resource = lastCall.resource
    /\ prevCall.state = lastCall.state
    /\ prevCall.before # prevCall.state

C6_TransitionIdempotent ==
    TwiceInARow =>
        /\ Len(prevCall.appended) + Len(lastCall.appended) = 1
        /\ lastCall.appended = <<>>

\* the same transition was requested twice on a resource that had no entry
\* and twice on one that was tracked in another state
C6_Witness ==
    /\ TwiceInARow
    /\ prevCall.before = "COPY_DEST"
    /\ prevCall.state = "PIXEL_SHADER_RESOURCE"
    /\ recordedBarriers >= 2

(***************************************************************************)
(* C7: a pinned resource is never removed from the usage table by          *)
(* ReleaseUnusedResources, whatever maxAge, nor by a cache trim; an        *)
(* unpinned resource whose age exceeds maxAge is removed by                *)
(* ReleaseUnusedResources.                                                 *)
(***************************************************************************)
C7_EvictionRespectsPinning ==
    /\ usageRet.op \in {"ReleaseUnusedResources", "TrackResource", "SetCacheLimit"}
         => usageRet.pinnedBefore \subseteq Tracked(m_resourceUsage)
    /\ usageRet.op = "ReleaseUnusedResources"
         => usageRet.expiredBefore \cap Tracked(m_resourceUsage) = {}
\* C3: whenever BeginFrame resets the command allocator of a frame slot, the
\* GPU has completed every command list submitted from that slot before.
C3_ResetOnlyAfterGpuDone == ~resetPending

\* C4: of two consecutive fence Signals that both come from EndFrame (no
\* WaitForGpu or Resize between them), the later passes the higher value.
C4_EndFrameSignalsIncrease ==
    (sigPrev.by = "EndFrame" /\ sigLast.by = "EndFrame") => sigLast.value > sigPrev.value

\* three EndFrame calls in a row have signalled, the last two among them
C4_Witness ==
    /\ sigPrev.by = "EndFrame"
    /\ sigLast.by = "EndFrame"
    /\ sigPrev.value >= 1
    /\ sigLast.value > sigPrev.value

\* C5: whichever of EndFrame, WaitForGpu and Resize issue them, no fence
\* Signal passes a value lower than an earlier Signal did.
C5_SignalsNeverDecrease == sigLast.value = sigMax

\* C9: when the loop copies the rows out of the borrowed pixel buffer, the
\* OnPaint call that stored the pointer to that buffer has not returned yet.
C9_CopyWithinProducerCall == lastCopy.wrote => lastCopy.producerActive

\* C10: when the loop writes the upload buffer, no copy out of that buffer
\* recorded in an earlier frame is still waiting for the GPU.
C10_NoWriteUnderPendingCopy == lastCopy.wrote => ~lastCopy.gpuReadPending

\* C11: every read and write of a field of the pending-update record is made
\* by a thread that holds m_bufferMutex, and the pointer, width and height the
\* consumer reads belong to one delivery (or are all reset).
C11_RecordUnderMutex ==
    /\ lastAccess.locked
    /\ snapshot.complete =>
          (snapshot.width = snapshot.pointer /\ snapshot.height = snapshot.pointer)

\* C12: after the staged copy, the destination byte at y * dstRowPitch + b is
\* the source byte at y * width * 4 + b, for every row y and every b < width * 4.
C12_RowsCopiedAtPitch ==
    copyPc = "copied" =>
        \A y \in 0..(cpuBufferHeight - 1), b \in 0..(cpuBufferWidth * BytesPerPixel - 1) :
            mappedData[y * DstRowPitch(cpuBufferWidth) + b + 1]
                = cpuBuffer[y * cpuBufferWidth * BytesPerPixel + b + 1]

\* a copy of several rows that are longer than one alignment unit and padded
C12_Witness ==
    /\ copyPc = "copied"
    /\ cpuBufferHeight >= 2
    /\ SrcRowPitch(cpuBufferWidth) > PitchAlignment
    /\ DstRowPitch(cpuBufferWidth) > SrcRowPitch(cpuBufferWidth)

\* C13: when ReleaseUnusedResources removes an entry from the usage table,
\* the GPU is idle: nothing submitted to the queue is still to be executed.
C13_ReleaseAfterGpuIdle ==
    [][(/\ usageRet'.op = "ReleaseUnusedResources"
        /\ Tracked(m_resourceUsage') # Tracked(m_resourceUsage)) => gpuQueue = <<>>]_vars

\* C14: when WaitForGpu returns (called directly or by Resize), no command
\* list submitted before the call is still to be executed by the GPU.
C14_WaitForGpuDrainsQueue ==
    [][(pc \in {"waitGpu", "waitResize"} /\ pc' = "top") =>
          ~\E i \in 1..Len(gpuQueue) : gpuQueue[i].kind = "list"]_vars

\* C15: with a GPU that executes everything queued, every fence wait ends:
\* a blocked EndFrame, WaitForGpu or Resize eventually returns.
C15_WaitsEnd == (pc \in {"waitMove", "waitGpu", "waitResize"}) ~> (pc = "top")

\* C16: no delivered buffer is replaced in the shared record before the loop
\* has copied it, and no delivered buffer is copied more than once.
C16_NoDropNoDuplicate ==
    /\ ~overwritten
    /\ \A b \in 1..MaxDeliveries : copyCount[b] <= 1

\* C17: a Create call made without a device, or whose description the device
\* rejects, returns a null handle and leaves the usage table, the state table
\* and the memory counters as they were.
C17_FailedCreateChangesNothing ==
    [][(/\ createRet'.call # createRet.call
        /\ (~createRet'.hasDevice \/ ~createRet'.accepted))
       => /\ createRet'.handle = NullResource
          /\ m_resourceUsage' = m_resourceUsage
          /\ m_resourceStates' = m_resourceStates
          /\ m_memoryUsageByType' = m_memoryUsageByType]_vars

\* the device rejected a constant buffer while another resource was tracked
C17_Witness ==
    /\ createRet.op = "CreateConstantBuffer"
    /\ createRet.hasDevice
    /\ ~createRet.accepted
    /\ createRet.handle = NullResource
    /\ Tracked(m_resourceUsage) # {}

\* C18: the width CreateConstantBuffer computes for a size is the smallest
\* multiple of 256 that is not below the size.
C18_WidthIsNextMultiple ==
    alignedSize.computed =>
        /\ alignedSize.width % 256 = 0
        /\ alignedSize.width >= alignedSize.size
        /\ alignedSize.width - alignedSize.size < 256

\* C19: a command list that holds a browser-texture copy holds, in this order,
\* the barrier to COPY_DEST, the copy and the barrier back to
\* PIXEL_SHADER_RESOURCE, before any UI draw; and whenever UI rendering
\* started, the tracked state of the browser texture was
\* PIXEL_SHADER_RESOURCE.
C19_CopyWrappedBeforeUI ==
    /\ \A i \in 1..Len(recorded) :
          recorded[i].cmd = "copy" =>
             /\ i = 2
             /\ recorded[1].cmd = "barrier" /\ recorded[1].after = "COPY_DEST"
             /\ Len(recorded) >= 3
             /\ recorded[3].cmd = "barrier"
             /\ recorded[3].before = "COPY_DEST"
             /\ recorded[3].after = "PIXEL_SHADER_RESOURCE"
    /\ \A i \in 1..Len(recorded) :
          recorded[i].cmd = "ui" => (i = 1 \/ i = 4)
    /\ uiStartState \in {"none", "PIXEL_SHADER_RESOURCE"}

\* the UI was rendered after the copy of the second delivery
C19_Witness ==
    /\ pc = "uiDone"
    /\ Len(recorded) = 4
    /\ recorded[2].cmd = "copy"
    /\ lastCopy.buffer = 2
    /\ uiStartState = "PIXEL_SHADER_RESOURCE"

\* C20: a TransitionResource(cmd, r, S) call on a resource whose tracked
\* state T differs from S appends exactly one barrier, from T to S, leaves
\* GetResourceState(r) = S, and leaves every other resource's tracked state
\* as it was.
C20_TransitionAppendsOneBarrier ==
    [][LET r == lastCall'.resource
           S == lastCall'.state
           T == GetResourceState(r)
       IN  (/\ lastCall'.op = "transition"
            /\ lastCall'.cmd
            /\ r # NullResource
            /\ T # S)
           => /\ Len(lastCall'.appended) = 1
              /\ lastCall'.appended[1].resource = r
              /\ lastCall'.appended[1].before = T
              /\ lastCall'.appended[1].after = S
              /\ recordedBarriers' = recordedBarriers + 1
              /\ m_resourceStates'[r] = S
              /\ \A q \in Resources \ {r} : m_resourceStates'[q] = m_resourceStates[q]
      ]_vars

\* resource 1 was moved from COPY_DEST to PIXEL_SHADER_RESOURCE by a
\* transition while resource 2 was tracked in COPY_DEST
C20_Witness ==
    /\ lastCall.op = "transition"
    /\ lastCall.cmd
    /\ lastCall.resource = 1
    /\ lastCall.before = "COPY_DEST"
    /\ lastCall.state = "PIXEL_SHADER_RESOURCE"
    /\ Len(lastCall.appended) = 1
    /\ m_resourceStates[1] = "PIXEL_SHADER_RESOURCE"
    /\ m_resourceStates[2] = "COPY_DEST"
    /\ prevCall.resource = 2

\* the state a pair's resource is tracked in when the loop reaches the pair:
\* the new state of the latest earlier pair on the same resource, else the
\* state tracked at the call (COMMON without an entry)
StateWhenReached(i) ==
    LET list == batchRet.transitions
        earlier == {j \in 1..(i - 1) : list[j].resource = list[i].resource}
        entry == batchRet.before[list[i].resource]
    IN  IF earlier # {}
        THEN list[CHOOSE j \in earlier : \A k \in earlier : k <= j].state
        ELSE IF entry # NoEntry THEN entry ELSE "COMMON"

\* the pairs that were not already correct when reached
PairsToChange ==
    {i \in 1..Len(batchRet.transitions) : StateWhenReached(i) # batchRet.transitions[i].state}

\* C21: TransitionResources issues at most one ResourceBarrier call; the call
\* carries, in list order, one barrier for exactly the pairs whose resource
\* was not tracked in the pair's state when the pair was reached, and no call
\* is issued when every pair is already correct.
C21_BatchIssuesOneCall ==
    /\ batchRet.calls <= 1
    /\ PairsToChange = {} => batchRet.calls = 0
    /\ batchRet.calls = 1 =>
          /\ Len(batchRet.issued) = Cardinality(PairsToChange)
          /\ \A i \in PairsToChange :
                LET k == Cardinality({j \in PairsToChange : j <= i})
                IN  /\ batchRet.issued[k].resource = batchRet.transitions[i].resource
                    /\ batchRet.issued[k].before = StateWhenReached(i)
                    /\ batchRet.issued[k].after = batchRet.transitions[i].state
    /\ batchRet.calls = 0 => batchRet.issued = <<>>
    /\ (batchRet.cmd /\ PairsToChange # {}) => batchRet.calls = 1

\* a batch that lists one resource twice, with a pair that was already correct
\* at the call and one that became necessary inside the batch
C21_Witness ==
    /\ batchRet.calls = 1
    /\ Len(batchRet.transitions) = 2
    /\ batchRet.transitions[1].resource = batchRet.transitions[2].resource
    /\ batchRet.before[batchRet.transitions[1].resource] = batchRet.transitions[2].state
    /\ Len(batchRet.issued) = 2

\* C22: FreeDescriptor with an index that is already free, or with an index
\* at or above the capacity (the invalid-index marker included), changes the
\* bitmap and the allocated count of no pool.
C22_FreeOfFreeIsNoOp ==
    [][(/\ descRet'.op = "free"
        /\ \/ descRet'.index >= DescriptorCapacity
           \/ ~m_descriptorPools[descRet'.type].allocated[descRet'.index])
       => m_descriptorPools' = m_descriptorPools]_vars

\* the invalid-index marker was freed on a pool that has descriptors allocated
\* and free slots left
C22_Witness ==
    /\ descRet.op = "free"
    /\ descRet.index = UINT_MAX
    /\ m_descriptorPools[descRet.type].size = 1
    /\ ~m_descriptorPools[descRet.type].allocated[0]

\* C23: after ReleaseCommandAllocator(f, a) the pool holds exactly one entry
\* for a, the entry stores f, and its index is in the available queue; the
\* pool grows by one entry when a had none before and keeps its size
\* otherwise.
C23_ReleaseRecordsAllocator ==
    [][poolRet'.kind = "released" =>
         LET a == poolRet'.allocator
             f == poolRet'.fenceValue
             had == \E i \in 1..Len(m_allocatorPool) : m_allocatorPool[i].allocator = a
             entries == {i \in 1..Len(m_allocatorPool') : m_allocatorPool'[i].allocator = a}
         IN  /\ Cardinality(entries) = 1
             /\ \A i \in entries :
                   /\ m_allocatorPool'[i].fenceValue = f
                   /\ \E k \in 1..Len(m_availableAllocators') :
                         m_availableAllocators'[k] = i
             /\ Len(m_allocatorPool') = IF had THEN Len(m_allocatorPool)
                                               ELSE Len(m_allocatorPool) + 1
      ]_vars

\* an allocator created elsewhere was released with a fence value and adopted
C23_Witness ==
    /\ poolRet.kind = "released"
    /\ poolRet.allocator = AdHocAllocator
    /\ poolRet.fenceValue = 1
    /\ Len(m_allocatorPool) = PreAllocated + 1
    /\ m_allocatorPool[PreAllocated + 1].allocator = AdHocAllocator

\* the sizes of the resources of S in a usage table, added up
SizeOf(usage, S) == SumOver([r \in Resources |-> usage[r].size], S)

\* C24: a SetCacheLimit or TrackResource call that returns with the total
\* above the limit has trimmed: no pinned resource was removed, every removed
\* resource was used no later than every unpinned resource that was kept,
\* removal stopped once the removed sizes reached the amount to free, and the
\* reported total is at or below the limit when the unpinned resources were
\* enough to free the excess.
C24_TrimReachesLimit ==
    [][(usageRet'.op \in {"SetCacheLimit", "TrackResource"}
          /\ usageRet'.outcome = "returned") =>
         LET removed == Tracked(m_resourceUsage) \ Tracked(m_resourceUsage')
             unpinned == Tracked(m_resourceUsage) \ PinnedIn(m_resourceUsage)
             total == GetTotalMemoryUsage(m_memoryUsageByType')
             excess == total - m_maxCacheSize'
             needToFree == excess + (m_maxCacheSize' \div 10)
         IN  /\ removed \cap PinnedIn(m_resourceUsage) = {}
             /\ \A r \in removed : \A k \in unpinned \ removed :
                   m_resourceUsage[r].lastUsed <= m_resourceUsage[k].lastUsed
             /\ removed # {} =>
                   \E r \in removed :
                      SizeOf(m_resourceUsage, removed \ {r}) < needToFree
             /\ (excess > 0 /\ SizeOf(m_resourceUsage, unpinned) >= excess) =>
                   GetTotalMemoryUsage(m_memoryUsageByType') <= m_maxCacheSize'
      ]_vars

\* C25: CreateShaderResourceView on an exhausted shader-visible pool computes
\* no handle from the invalid-index marker, writes no view, and returns a
\* descriptor whose index is no slot of the pool; with a null resource it
\* allocates nothing and leaves the pools as they were.
C25_ExhaustedViewFails ==
    [][srvRet'.call # srvRet.call =>
         /\ (srvRet'.resource # NullResource
               /\ FreeSlots(m_descriptorPools["CBV_SRV_UAV"]) = {}
               /\ srvRet'.wasFull) =>
               /\ ~srvRet'.cpuHandle.computed
               /\ ~srvRet'.written
               /\ srvRet'.heapIndex \notin Slots
         /\ srvRet'.resource = NullResource =>
               /\ m_descriptorPools' = m_descriptorPools
               /\ liveDescriptors' = liveDescriptors
      ]_vars

\* C26: no operation locks m_mutex on a thread that already holds it, and
\* TrackResource, SetCacheLimit, TrimCache and ReleaseUnusedResources run to
\* completion.
C26_NoSelfLock ==
    /\ relock = "unknown"
    /\ ~rmHung
    /\ usageRet.outcome = "returned"

\* C27: an allocator returned by GetCommandAllocator is not returned by
\* another GetCommandAllocator call before it was passed to
\* ReleaseCommandAllocator: no allocator has two holders.
C27_OneHolderPerAllocator ==
    \A a \in 0..MaxAllocators : heldAllocators[a] <= 1

\* C28: GetTotalMemoryUsage equals the sum of the sizes of the resources in
\* the usage table, and a resource that is not in the usage table has no
\* entry in the state table.
C28_CountersMatchTable ==
    /\ GetTotalMemoryUsage(m_memoryUsageByType)
          = SizeOf(m_resourceUsage, Tracked(m_resourceUsage))
    /\ \A r \in Resources :
          ~m_resourceUsage[r].present => m_resourceStates[r] = NoEntry

\* C29: the region of every recorded browser-texture copy lies within the
\* display texture, and the bytes written for it lie within the upload
\* buffer.
C29_RegionFitsTexture ==
    view.region.copied =>
       /\ view.region.width <= view.region.textureWidth
       /\ view.region.height <= view.region.textureHeight
       /\ view.region.written <= view.region.uploadSize

\* C30: ClearCache leaves every index a caller still holds allocated, so
\* that AllocateDescriptor gives no held index to a second caller and the
\* holder's FreeDescriptor frees no slot that another caller was given.
C30_ClearKeepsHeldIndices ==
    \A t \in HeapTypes : \A i \in Slots :
        /\ liveDescriptors[t][i] > 0 => m_descriptorPools[t].allocated[i]
        /\ liveDescriptors[t][i] <= 1

====
